---- MODULE Spec2Model ----
(***************************************************************************)
(* A model of the sample-agentic-platform glue code:                       *)
(*   - the multi-agent chat agent and its controller (Strands),            *)
(*   - the LangGraph chat controller,                                      *)
(*   - the knowledge-base search tool,                                     *)
(*   - the documentation summary generator (generate_summaries.py).        *)
(* These are separate programs: a behaviour follows one of them, chosen in *)
(* Init by the variable `program`.                                         *)
(*                                                                         *)
(* Text is modelled as sequences of one-character strings, so that          *)
(* substring tests, lower-casing, joins and replacements are computed      *)
(* character by character as Python computes them.                         *)
(***************************************************************************)
EXTENDS Integers, Sequences, FiniteSets, TLC

VARIABLES
  program,      \* which program this behaviour runs
  \* ---- a call of StrandsMultiAgentChatAgent._determine_agent_strategy
  sQuery,       \* the query argument
  sCount,       \* the number of fragments the query was assembled from
  sLabel,       \* the returned label
  sPc,          \* "input" while the argument is built, "returned" after the call
  \* ---- the chat services: multi_agent_chat (controller + agent) and langgraph_chat
  agent,        \* the module-level StrandsMultiAgentChatAgent object (its attributes)
  chat_service, \* the module-level LangGraphChat object
  req,          \* req[r]: <<>> or <<the AgenticRequest handed to the handler>>
  pc,           \* pc[r]: where the handler of request r stands
  agentCalls,   \* agentCalls[r]: the calls of the agent's methods the controller made for r
  extCalls,     \* extCalls[r]: the calls made to the external framework for r, in order
  extResult,    \* extResult[r]: <<>> or <<how the framework call of r ended: [raised, value]>>
  response,     \* response[r]: <<>> or <<the AgenticResponse returned for r>>
  chunks,       \* chunks[r]: the chunks stream_async has emitted for r, in order
  pending,      \* pending[r]: platform_events of the current chunk not yet yielded
  agentOut,     \* agentOut[r]: the events invoke_stream has yielded, in order
  ctrlOut,      \* ctrlOut[r]: the events create_stream has yielded, in order
  served,       \* the number of requests the service has taken so far
  emitted,      \* the number of chunks the framework has emitted so far
  \* ---- generate_summaries.py
  gArgv,        \* sys.argv[1:]
  gConfig,      \* config['folders_to_analyze']
  gFolders,     \* folders, the list main iterates over
  gPc,          \* where main stands
  gIdx,         \* the position of the loop in folders (from 1)
  gSuccess,     \* success_count
  gLog,         \* one entry for each folder generate_summary_file has returned for, this run
  gEvents,      \* the converse calls, file writes and sleeps of this run, in order
  gFiles,       \* gFiles[f]: <<>> or <<the content of summary file f in ANALYSIS_DIR>>
  gWrites,      \* gWrites[f]: how often file f has been written
  gRun,         \* the number of the current run of the script
  \* ---- kb_tool.py
  knowledge_base_id, \* the module-level knowledge_base_id
  client,       \* the module-level retrieval client, or None
  kbSearches,   \* the number of calls of search_knowledge_base so far
  kbRetrieveCalls, \* the number of calls of client.retrieve so far
  kbQuery,      \* <<>> or <<the query of the last search>>
  kbOutcome,    \* <<>> or <<how client.retrieve ended in the last search>>
  kbReturn,     \* <<>> or <<what the last search returned>>
  \* ---- the 'pods running' checks of the EKS integration tests
  pChecker,     \* None, or the test class whose check has run
  pKubectl,     \* <<>> or <<how `kubectl get pods -o json` ended>>
  pPods,        \* pods_info["items"] of that run
  pVerdict,     \* <<>> or <<whether the check passed>>
  \* ---- a call of get_folder_content_summary(folder_name, config)
  fFiles,       \* all_files: what list_files(folder_path) returned
  fConfig,      \* config['file_selection']
  fPreamble,    \* len(content_summary) when the content of the key files begins
  fImportant,   \* important_files
  fFiltered,    \* filtered_files
  fPc,          \* the loop the function stands in
  fIdx,         \* the position in the list of that loop (from 1)
  fTokens,      \* tokens_used
  fParts,       \* what was appended to content_summary for the key files, in order
  \* ---- a run of an EKS test runner: main and run_all_tests
  kRunner,      \* which runner script runs
  kPc,          \* where the run stands
  kIdx,         \* the position in the list of tests of the current loop (from 1)
  kToken,       \* self.auth_token
  kBasic,       \* basic_results
  kEndpoint,    \* endpoint_results
  kHttp,        \* the HTTP requests the run has sent, in order
  kProc,        \* self.port_forward_process: None or the Popen object
  kProcState,   \* the kubectl port-forward process: "not_started", "running", "exited"
  kPopen,       \* how many processes subprocess.Popen has started
  kSignals,     \* how often terminate() has signalled the running process
  kExit,        \* <<>> or <<how the script ended: the exit code and the cause>>
  \* ---- a call of clean_model_response(response)
  cLines,       \* the lines of the response argument
  cOutput,      \* <<>> or <<the returned text>>
  cPc           \* "input" while the argument is built, "returned" after the call

strategyVars == <<sQuery, sCount, sLabel, sPc>>
chatVars == <<agent, chat_service, req, pc, agentCalls, extCalls, extResult, response,
              chunks, pending, agentOut, ctrlOut, served, emitted>>

summaryVars == <<gArgv, gConfig, gFolders, gPc, gIdx, gSuccess, gLog, gEvents, gFiles,
                 gWrites, gRun>>

kbVars == <<knowledge_base_id, client, kbSearches, kbRetrieveCalls, kbQuery, kbOutcome,
            kbReturn>>

podsVars == <<pChecker, pKubectl, pPods, pVerdict>>

folderVars == <<fFiles, fConfig, fPreamble, fImportant, fFiltered, fPc, fIdx, fTokens,
                fParts>>

runnerVars == <<kRunner, kPc, kIdx, kToken, kBasic, kEndpoint, kHttp, kProc, kProcState,
                kPopen, kSignals, kExit>>

cleanVars == <<cLines, cOutput, cPc>>

vars == <<program, strategyVars, chatVars, summaryVars, kbVars, podsVars, folderVars,
          runnerVars, cleanVars>>

\* what the actions of one program leave alone
nonStrategyVars == <<chatVars, summaryVars, kbVars, podsVars, folderVars, runnerVars,
  cleanVars>>
nonChatVars == <<program, strategyVars, summaryVars, kbVars, podsVars, folderVars, runnerVars,
  cleanVars>>
nonSummaryVars == <<program, strategyVars, chatVars, kbVars, podsVars, folderVars, runnerVars,
  cleanVars>>
nonKbVars == <<program, strategyVars, chatVars, summaryVars, podsVars, folderVars, runnerVars,
  cleanVars>>
nonPodsVars == <<program, strategyVars, chatVars, summaryVars, kbVars, folderVars, runnerVars,
  cleanVars>>
nonFolderVars == <<program, strategyVars, chatVars, summaryVars, kbVars, podsVars, runnerVars,
  cleanVars>>
nonRunnerVars == <<program, strategyVars, chatVars, summaryVars, kbVars, podsVars, folderVars,
  cleanVars>>
nonCleanVars == <<program, strategyVars, chatVars, summaryVars, kbVars, podsVars, folderVars,
  runnerVars>>

----------------------------------------------------------------------------
(* Bounds of the model *)

\* number of fragments a query of the strategy harness is assembled from
MaxPieces == 3
\* number of requests a chat service takes in one behaviour
MaxRequests == 3
\* number of chunks the agent framework emits in one behaviour, over all streams
MaxChunks == 3
\* length of the command line and of folders_to_analyze
MaxFolders == 2
\* number of times the summary script is run
MaxRuns == 2
\* number of calls of search_knowledge_base
MaxSearches == 2
\* number of entries of retrievalResults in one answer
MaxResults == 2
\* number of pods `kubectl get pods` lists
MaxPods == 2
\* number of files list_files finds in the folder
MaxFiles == 2
\* number of lines of a model response
MaxLines == 4

----------------------------------------------------------------------------
(* Text helpers: Python str operations on sequences of characters *)

NoText == <<>>

\* query.lower()
Lower(s) ==
  LET UpperAlphabet == <<"A","B","C","D","E","F","G","H","I","J","K","L","M","N","O","P","Q","R","S","T","U","V","W","X","Y","Z">>
      LowerAlphabet == <<"a","b","c","d","e","f","g","h","i","j","k","l","m","n","o","p","q","r","s","t","u","v","w","x","y","z">>
      \* str.lower() on one ASCII character
      LowerChar(c) ==
        IF \E i \in 1..Len(UpperAlphabet) : UpperAlphabet[i] = c
        THEN LowerAlphabet[CHOOSE i \in 1..Len(UpperAlphabet) : UpperAlphabet[i] = c]
        ELSE c
  IN  [i \in 1..Len(s) |-> LowerChar(s[i])]

\* Python's `kw in s` on strings
IsSubstring(kw, s) ==
  \E i \in 0..(Len(s) - Len(kw)) : SubSeq(s, i + 1, i + Len(kw)) = kw

\* sep.join(words)
RECURSIVE Join(_, _)
Join(sep, words) ==
  IF Len(words) = 0 THEN <<>>
  ELSE IF Len(words) = 1 THEN words[1]
  ELSE words[1] \o sep \o Join(sep, Tail(words))

----------------------------------------------------------------------------
(* StrandsMultiAgentChatAgent._determine_agent_strategy *)

research_keywords ==
  << <<"r","e","s","e","a","r","c","h">>,
     <<"f","i","n","d">>,
     <<"s","e","a","r","c","h">>,
     <<"i","n","f","o","r","m","a","t","i","o","n">>,
     <<"f","a","c","t","s">>,
     <<"d","a","t","a">>,
     <<"s","t","u","d","y">>,
     <<"i","n","v","e","s","t","i","g","a","t","e">> >>

analysis_keywords ==
  << <<"a","n","a","l","y","z","e">>,
     <<"c","a","l","c","u","l","a","t","e">>,
     <<"s","o","l","v","e">>,
     <<"p","r","o","b","l","e","m">>,
     <<"m","a","t","h">>,
     <<"s","t","a","t","i","s","t","i","c","s">>,
     <<"l","o","g","i","c">>,
     <<"r","e","a","s","o","n","i","n","g">> >>

creative_keywords ==
  << <<"c","r","e","a","t","e">>,
     <<"w","r","i","t","e">>,
     <<"s","t","o","r","y">>,
     <<"c","r","e","a","t","i","v","e">>,
     <<"b","r","a","i","n","s","t","o","r","m">>,
     <<"i","n","n","o","v","a","t","i","v","e">>,
     <<"d","e","s","i","g","n">>,
     <<"i","m","a","g","i","n","e">> >>

ResearchName == <<"r","e","s","e","a","r","c","h">>
AnalysisName == <<"a","n","a","l","y","s","i","s">>
CreativeName == <<"c","r","e","a","t","i","v","e">>
CoordinatorName == <<"c","o","o","r","d","i","n","a","t","o","r">>
JoinSeparator == <<","," ">>

\* any(keyword in query_lower for keyword in keywords)
AnyKeywordIn(keywords, query_lower) ==
  \E k \in 1..Len(keywords) : IsSubstring(keywords[k], query_lower)

\* the mutant of agents_needed: the three tests chained with elif
agents_needed_elif(query_lower) ==
  IF AnyKeywordIn(research_keywords, query_lower) THEN <<ResearchName>>
  ELSE IF AnyKeywordIn(analysis_keywords, query_lower) THEN <<AnalysisName>>
  ELSE IF AnyKeywordIn(creative_keywords, query_lower) THEN <<CreativeName>>
  ELSE <<CoordinatorName>>

\* agents_needed after the three appends and the default
agents_needed(query_lower) ==
  LET found ==
        (IF AnyKeywordIn(research_keywords, query_lower) THEN <<ResearchName>> ELSE <<>>)
        \o (IF AnyKeywordIn(analysis_keywords, query_lower) THEN <<AnalysisName>> ELSE <<>>)
        \o (IF AnyKeywordIn(creative_keywords, query_lower) THEN <<CreativeName>> ELSE <<>>)
  IN IF found = <<>> THEN <<CoordinatorName>> ELSE found

determine_agent_strategy(query) ==
  Join(JoinSeparator, agents_needed(Lower(query)))

----------------------------------------------------------------------------
(* program "strategy": one call of _determine_agent_strategy on a query    *)
(* assembled from fragments                                                *)

StrategyInit ==
  /\ sQuery = <<>>
  /\ sCount = 0
  /\ sLabel = <<>>
  /\ sPc = "input"

\* the caller types one more fragment of the query
AppendPiece(p) ==
  /\ program = "strategy"
  /\ sPc = "input"
  /\ sCount < MaxPieces
  /\ sQuery' = sQuery \o p
  /\ sCount' = sCount + 1
  /\ UNCHANGED <<program, sLabel, sPc, nonStrategyVars>>

\* strategy = self._determine_agent_strategy(query)
CallDetermineStrategy ==
  /\ program = "strategy"
  /\ sPc = "input"
  /\ sLabel' = determine_agent_strategy(sQuery)
  /\ sPc' = "returned"
  /\ UNCHANGED <<program, sQuery, sCount, nonStrategyVars>>

StrategyNext ==
  LET Pieces ==
        { <<"f","i","n","d">>,      \* a research keyword
          <<"F","I","N","D">>,      \* the same in upper case
          <<"d","a">>, <<"t","a">>, \* halves of the research keyword "data"
          <<"M","a","t","h">>,      \* an analysis keyword, capitalised
          <<"w","r","i","t","e">>,  \* a creative keyword
          <<" ">>,
          <<"h","i">> }
  IN
  \/ \E p \in Pieces : AppendPiece(p)
  \/ CallDetermineStrategy

----------------------------------------------------------------------------
(* AgenticRequest values and the platform's message, response and event    *)
(* records                                                                 *)

None == "None"

\* Python's `x or d` on an optional string
OrDefault(x, d) == IF x = None \/ x = "" THEN d ELSE x

\* the handler tasks of a service that are in flight together: handlers touch each
\* other only through the module-level objects, so two tasks show any interference
RequestIds == {"task1", "task2"}

Requests ==
  LET \* text: <<>> when the message holds no text content (get_text_content() and
      \* latest_user_text are None), else <<the text of its text block>>
      RequestCatalogue ==
        LET Text_find_math == <<"f","i","n","d"," ","M","a","t","h">>
        IN
        { [text |-> <<Text_find_math>>, session_id |-> "s1"],
          [text |-> <<NoText>>,         session_id |-> None],
          [text |-> <<>>,               session_id |-> ""] }
  IN
  { [text |-> c.text, session_id |-> c.session_id, stream |-> b] :
      c \in RequestCatalogue, b \in BOOLEAN }

\* TextContent(text=...)
TextContent(text) == [type |-> "text", text |-> text]

\* Message(role=..., content=[...])
Message(role, content) == [role |-> role, content |-> content]

\* Message.from_text(role, text)
MessageFromText(role, text) == Message(role, <<TextContent(text)>>)

\* StreamEvent variants: text delta, error, completion
StreamEvent(type, session_id, data) == [type |-> type, session_id |-> session_id, data |-> data]

ErrorEvent(session_id, error) == StreamEvent("error", session_id, error)

----------------------------------------------------------------------------
(* The external frameworks: what a coordinator call, a stream or the chat  *)
(* graph may give back                                                     *)

\* how a call of an external service ended: it raised (value is str(e)) or it
\* returned (value is the text given back)
Outcome(raised, value) == [raised |-> raised, value |-> value]

\* str(e) of an exception raised by the framework
ErrorTexts == { <<"b","o","o","m">> }

\* StrandsStreamingConverter(session_id).convert_chunks_to_events(chunk):
\* a list of platform events, possibly empty, possibly several
convert_chunks_to_events(session_id, chunk) ==
  CASE chunk = "delta"    -> <<StreamEvent("text_delta", session_id, <<"d">>)>>
    [] chunk = "metadata" -> <<>>
    [] chunk = "final"    -> <<StreamEvent("text_delta", session_id, <<"f">>),
                               StreamEvent("completion", session_id, <<>>)>>

----------------------------------------------------------------------------
(* StrandsMultiAgentChatAgent: __init__, invoke, invoke_stream             *)

StrategyPrefix == <<"[","M","u","l","t","i","-","A","g","e","n","t"," ","S","t","r","a","t","e","g","y",":"," ">>

\* the attributes __init__ and _init_specialized_agents set
StrandsMultiAgentChatAgent ==
  [ model_config   |-> "us.anthropic.claude-3-5-sonnet-20241022-v2:0",
    research_agent |-> "research_agent",
    analysis_agent |-> "analysis_agent",
    creative_agent |-> "creative_agent",
    coordinator    |-> "coordinator" ]

\* enhanced_query = f"[Multi-Agent Strategy: {strategy}] {query}"
enhanced_query(strategy, query) ==
  LET StrategySuffix == <<"]"," ">>
  IN
  StrategyPrefix \o strategy \o StrategySuffix \o query

\* a call of an external agent object
ExternalCall(target, method, query) ==
  [target |-> target, method |-> method, query |-> query]

\* the mutant of InvokeCalls: the label routes the query to the specialised agents
InvokeCallsRouted(self, method, query) ==
  LET strategy == determine_agent_strategy(query)
      q == enhanced_query(strategy, query)
  IN  IF IsSubstring(ResearchName, strategy)
      THEN <<ExternalCall(self.research_agent, method, q),
             ExternalCall(self.coordinator, method, q)>>
      ELSE <<ExternalCall(self.coordinator, method, q)>>

\* the external calls invoke and invoke_stream make for a query:
\* self.coordinator(enhanced_query), self.coordinator.stream_async(enhanced_query)
InvokeCalls(self, method, query) ==
  LET strategy == determine_agent_strategy(query)
  IN  <<ExternalCall(self.coordinator, method, enhanced_query(strategy, query))>>

\* the mutant of InvokeResponse: the strategy is added as a second content block
InvokeResponseTwoBlocks(request, result) ==
  [ message    |-> Message("assistant", <<TextContent(result),
                     TextContent(determine_agent_strategy(request.text[1]))>>),
    session_id |-> OrDefault(request.session_id, "default"),
    metadata   |-> [ agent_type |-> "strands_multi_agent_chat",
                     strategy_used |-> determine_agent_strategy(request.text[1]),
                     agents_available |-> <<"coordinator", "research", "analysis", "creative">> ] ]

\* the AgenticResponse invoke builds from the coordinator's result
InvokeResponse(request, result) ==
  [ message    |-> Message("assistant", <<TextContent(result)>>),
    session_id |-> OrDefault(request.session_id, "default"),
    metadata   |-> [ agent_type |-> "strands_multi_agent_chat",
                     strategy_used |-> determine_agent_strategy(request.text[1]),
                     agents_available |-> <<"coordinator", "research", "analysis", "creative">> ] ]

\* the mutant of AgentAfterRequest: the handler keeps its query on the shared object
AgentKeepsQuery(self, request) == [self EXCEPT !.model_config = request.text[1]]

\* what handling a request leaves in the attributes of the module-level agent:
\* neither invoke nor invoke_stream assigns to self
AgentAfterRequest(self, request) == self

\* the mutant of invoke_stream_except: no handler around the stream
invoke_stream_reraises(session_id, e) ==
  [pc |-> "raised_external", events |-> <<>>]

\* except Exception as e in invoke_stream: the ErrorEvent to yield, then the end
invoke_stream_except(session_id, e) ==
  [pc |-> "stream_last", events |-> <<ErrorEvent(session_id, e)>>]

\* the mutant of create_stream_yield: completion events are not passed on
create_stream_skips_completion(stream_event) ==
  IF stream_event.type = "completion" THEN <<>> ELSE <<stream_event>>

\* the forwarding loop of create_stream: `yield stream_event`
create_stream_yield(stream_event) == <<stream_event>>

\* a call the controller makes on the module-level agent: agent.invoke(request),
\* agent.invoke_stream(request)
AgentCall(method, request) == [method |-> method, request |-> request]

\* the mutant of controller_invoke_raises: the stream flag is not looked at
controller_invoke_accepts_all(request) == FALSE

\* if request.stream: raise ValueError("Streaming requests should use the /stream
\* endpoint")
controller_invoke_raises(request) == request.stream

\* return agent.invoke(request)
controller_invoke_return(agent_response) == agent_response

ChatInit ==
  /\ agent = StrandsMultiAgentChatAgent
  /\ chat_service = [graph |-> "LangGraphChat"]
  /\ req = [r \in RequestIds |-> <<>>]
  /\ pc = [r \in RequestIds |-> "idle"]
  /\ agentCalls = [r \in RequestIds |-> <<>>]
  /\ extCalls = [r \in RequestIds |-> <<>>]
  /\ extResult = [r \in RequestIds |-> <<>>]
  /\ response = [r \in RequestIds |-> <<>>]
  /\ chunks = [r \in RequestIds |-> <<>>]
  /\ pending = [r \in RequestIds |-> <<>>]
  /\ agentOut = [r \in RequestIds |-> <<>>]
  /\ ctrlOut = [r \in RequestIds |-> <<>>]
  /\ served = 0
  /\ emitted = 0

streamVars == <<chunks, pending, agentOut, ctrlOut, emitted>>

\* controller.invoke(request), up to the coordinator call of agent.invoke
ControllerInvoke(r, request) ==
  /\ program = "multi_agent_chat"
  /\ pc[r] = "idle"
  /\ served < MaxRequests
  /\ served' = served + 1
  /\ req' = [req EXCEPT ![r] = <<request>>]
  /\ IF controller_invoke_raises(request)
     THEN /\ pc' = [pc EXCEPT ![r] = "raised_stream_flag"]
          /\ UNCHANGED <<agentCalls, extCalls, agent>>
     ELSE /\ agentCalls' = [agentCalls EXCEPT ![r] = Append(@, AgentCall("invoke", request))]
          /\ IF request.text = <<>>
             THEN /\ pc' = [pc EXCEPT ![r] = "raised_no_text"]
                  /\ UNCHANGED <<extCalls, agent>>
             ELSE /\ extCalls' = [extCalls EXCEPT ![r] = @ \o InvokeCalls(agent, "__call__", request.text[1])]
                  /\ pc' = [pc EXCEPT ![r] = "invoke_called"]
                  /\ agent' = AgentAfterRequest(agent, request)
  /\ UNCHANGED <<nonChatVars, chat_service, extResult, response, streamVars>>

\* result = self.coordinator(enhanced_query) returns: the response is built and returned
CoordinatorReturns(r, result) ==
  /\ program = "multi_agent_chat"
  /\ pc[r] = "invoke_called"
  /\ extResult' = [extResult EXCEPT ![r] = <<Outcome(FALSE, result)>>]
  /\ response' = [response EXCEPT ![r] = <<controller_invoke_return(InvokeResponse(req[r][1], result))>>]
  /\ pc' = [pc EXCEPT ![r] = "returned"]
  /\ UNCHANGED <<nonChatVars, agentCalls, agent, chat_service, req, extCalls, streamVars, served>>

\* self.coordinator(enhanced_query) raises: nothing in invoke or the controller catches it
CoordinatorRaises(r, e) ==
  /\ program = "multi_agent_chat"
  /\ pc[r] = "invoke_called"
  /\ extResult' = [extResult EXCEPT ![r] = <<Outcome(TRUE, e)>>]
  /\ pc' = [pc EXCEPT ![r] = "raised_external"]
  /\ UNCHANGED <<nonChatVars, agentCalls, agent, chat_service, req, extCalls,
                 response, streamVars, served>>

\* session_id = request.session_id or "default"
StreamSession(request) == OrDefault(request.session_id, "default")

\* create_stream(request), first pull: invoke_stream runs to its first await
CreateStream(r, request) ==
  LET NoTextError == <<"N","o"," ","t","e","x","t"," ","c","o","n","t","e","n","t"," ","f","o","u","n","d"," ","i","n"," ","r","e","q","u","e","s","t"," ","m","e","s","s","a","g","e">>
  IN
  /\ program = "multi_agent_chat"
  /\ pc[r] = "idle"
  /\ served < MaxRequests
  /\ served' = served + 1
  /\ req' = [req EXCEPT ![r] = <<request>>]
  /\ IF request.text = <<>>
     THEN /\ pending' = [pending EXCEPT ![r] = <<ErrorEvent(StreamSession(request), NoTextError)>>]
          /\ pc' = [pc EXCEPT ![r] = "stream_last"]
          /\ UNCHANGED <<extCalls, agent>>
     ELSE /\ extCalls' = [extCalls EXCEPT ![r] = @ \o InvokeCalls(agent, "stream_async", request.text[1])]
          /\ pc' = [pc EXCEPT ![r] = "streaming"]
          /\ agent' = AgentAfterRequest(agent, request)
          /\ UNCHANGED pending
  /\ agentCalls' = [agentCalls EXCEPT ![r] = Append(@, AgentCall("invoke_stream", request))]
  /\ UNCHANGED <<nonChatVars, chat_service, extResult, response,
                 chunks, agentOut, ctrlOut, emitted>>

\* async for event in self.coordinator.stream_async(...): the next chunk arrives and
\* platform_events = converter.convert_chunks_to_events(event)
FrameworkChunk(r, chunk) ==
  /\ program = "multi_agent_chat"
  /\ pc[r] = "streaming"
  /\ pending[r] = <<>>
  /\ emitted < MaxChunks
  /\ emitted' = emitted + 1
  /\ chunks' = [chunks EXCEPT ![r] = Append(@, chunk)]
  /\ pending' = [pending EXCEPT ![r] = convert_chunks_to_events(StreamSession(req[r][1]), chunk)]
  /\ UNCHANGED <<nonChatVars, agentCalls, agent, chat_service, req, pc, extCalls, extResult,
                 response, agentOut, ctrlOut, served>>

\* for platform_event in platform_events: yield platform_event, which create_stream's
\* loop receives and yields in turn; after the last event of an ending stream the
\* generators return
YieldEvent(r) ==
  /\ program = "multi_agent_chat"
  /\ pending[r] # <<>>
  /\ agentOut' = [agentOut EXCEPT ![r] = Append(@, Head(pending[r]))]
  /\ ctrlOut' = [ctrlOut EXCEPT ![r] = @ \o create_stream_yield(Head(pending[r]))]
  /\ pending' = [pending EXCEPT ![r] = Tail(@)]
  /\ pc' = [pc EXCEPT ![r] = IF @ = "stream_last" /\ Tail(pending[r]) = <<>>
                             THEN "stream_done" ELSE @]
  /\ UNCHANGED <<nonChatVars, agentCalls, agent, chat_service, req, extCalls, extResult,
                 response, chunks, emitted, served>>

\* stream_async is exhausted: invoke_stream and create_stream return
FrameworkEnds(r) ==
  /\ program = "multi_agent_chat"
  /\ pc[r] = "streaming"
  /\ pending[r] = <<>>
  /\ pc' = [pc EXCEPT ![r] = "stream_done"]
  /\ UNCHANGED <<nonChatVars, agentCalls, agent, chat_service, req, extCalls, extResult,
                 response, streamVars, served>>

\* stream_async (or the converter) raises: except Exception builds the ErrorEvent
FrameworkRaises(r, e) ==
  /\ program = "multi_agent_chat"
  /\ pc[r] = "streaming"
  /\ pending[r] = <<>>
  /\ extResult' = [extResult EXCEPT ![r] = <<Outcome(TRUE, e)>>]
  /\ pending' = [pending EXCEPT ![r] = invoke_stream_except(StreamSession(req[r][1]), e).events]
  /\ pc' = [pc EXCEPT ![r] = invoke_stream_except(StreamSession(req[r][1]), e).pc]
  /\ UNCHANGED <<nonChatVars, agentCalls, agent, chat_service, req, extCalls, response,
                 chunks, agentOut, ctrlOut, emitted, served>>

\* the handler of r is over: its result has gone to the server and the request, the
\* response and the generators are discarded
Discard(r) ==
  /\ program \in {"multi_agent_chat", "langgraph_chat"}
  /\ pc[r] \in {"returned", "raised_stream_flag", "raised_no_text", "raised_external",
               "stream_done"}
  /\ req' = [req EXCEPT ![r] = <<>>]
  /\ pc' = [pc EXCEPT ![r] = "idle"]
  /\ agentCalls' = [agentCalls EXCEPT ![r] = <<>>]
  /\ extCalls' = [extCalls EXCEPT ![r] = <<>>]
  /\ extResult' = [extResult EXCEPT ![r] = <<>>]
  /\ response' = [response EXCEPT ![r] = <<>>]
  /\ chunks' = [chunks EXCEPT ![r] = <<>>]
  /\ agentOut' = [agentOut EXCEPT ![r] = <<>>]
  /\ ctrlOut' = [ctrlOut EXCEPT ![r] = <<>>]
  /\ UNCHANGED <<nonChatVars, agent, chat_service, pending, served, emitted>>

MultiAgentChatNext ==
  LET \* chunks of coordinator.stream_async
      Chunks == {"delta", "metadata", "final"}
      \* str(result) of a coordinator call
      Results == { <<"4","2">>, <<"o","k">> }
      \* the requests sent to /stream: neither create_stream nor invoke_stream reads the
      \* stream flag, which the clients of that endpoint set
      StreamRequests == { request \in Requests : request.stream }
  IN
  \/ \E r \in RequestIds : Discard(r)
  \/ \E r \in RequestIds, request \in Requests : ControllerInvoke(r, request)
  \/ \E r \in RequestIds, result \in Results : CoordinatorReturns(r, result)
  \/ \E r \in RequestIds, e \in ErrorTexts : CoordinatorRaises(r, e)
  \/ \E r \in RequestIds, request \in StreamRequests : CreateStream(r, request)
  \/ \E r \in RequestIds, chunk \in Chunks : FrameworkChunk(r, chunk)
  \/ \E r \in RequestIds : YieldEvent(r)
  \/ \E r \in RequestIds : FrameworkEnds(r)
  \/ \E r \in RequestIds, e \in ErrorTexts : FrameworkRaises(r, e)

----------------------------------------------------------------------------
(* ChatController of langgraph_chat: extract_response and chat             *)

SorryText == <<"I","'","m"," ","s","o","r","r","y",","," ","s","o","m","e","t","h","i","n","g"," ","w","e","n","t"," ","w","r","o","n","g","."," ","P","l","e","a","s","e"," ","t","r","y"," ","a","g","a","i","n",".">>
Whitespace == {" ", "\n", "\t"}

\* the least i >= from with pat at offset i of s, or 0 when there is none (1-based)
Find(pat, s, from) ==
  LET hits == { i \in from..(Len(s) - Len(pat) + 1) : SubSeq(s, i, i + Len(pat) - 1) = pat }
  IN  IF hits = {} THEN 0 ELSE CHOOSE i \in hits : \A j \in hits : i <= j

\* str.strip()
Strip(s) ==
  LET keep == { i \in 1..Len(s) : s[i] \notin Whitespace }
  IN  IF keep = {} THEN <<>>
      ELSE SubSeq(s, CHOOSE i \in keep : \A j \in keep : i <= j,
                     CHOOSE i \in keep : \A j \in keep : i >= j)

\* re.search(r'<response>(.*?)</response>', text, re.DOTALL): group(1).strip(), or
\* the apology when there is no match
extract_response(text) ==
  LET OpenTag == <<"<","r","e","s","p","o","n","s","e",">">>
      CloseTag == <<"<","/","r","e","s","p","o","n","s","e",">">>
      open == Find(OpenTag, text, 1)
      close == IF open = 0 THEN 0 ELSE Find(CloseTag, text, open + Len(OpenTag))
  IN  IF close = 0 THEN SorryText
      ELSE Strip(SubSeq(text, open + Len(OpenTag), close - 1))

\* request.latest_user_text: None (here <<>>) without a text block
latest_user_text(request) == request.text

\* user_text = request.latest_user_text; if not user_text: user_text = "Hello"
ChatUserText(request) ==
  LET Text_hello == <<"H","e","l","l","o">>
  IN
  IF latest_user_text(request) = <<>> \/ latest_user_text(request)[1] = <<>>
  THEN Text_hello
  ELSE latest_user_text(request)[1]

\* the mutant of ChatResponse: the answer of chat_service.run is passed on as it is
ChatResponsePassThrough(request, reply) ==
  [ message    |-> MessageFromText("assistant", reply),
    session_id |-> request.session_id ]

\* AgenticResponse(message=Message.from_text("assistant", response_text), session_id=...)
ChatResponse(request, reply) ==
  [ message    |-> MessageFromText("assistant", extract_response(reply)),
    session_id |-> request.session_id ]

\* ChatController.chat(request), up to chat_service.run(prompt)
Chat(r, request) ==
  /\ program = "langgraph_chat"
  /\ pc[r] = "idle"
  /\ served < MaxRequests
  /\ served' = served + 1
  /\ req' = [req EXCEPT ![r] = <<request>>]
  /\ extCalls' = [extCalls EXCEPT ![r] =
                    Append(@, ExternalCall(chat_service.graph, "run", ChatUserText(request)))]
  /\ pc' = [pc EXCEPT ![r] = "chat_called"]
  /\ UNCHANGED <<nonChatVars, agentCalls, agent, chat_service, extResult, response, streamVars>>

\* chat_service.run(prompt) returns a Message: the response is built and returned
ChatServiceReturns(r, reply) ==
  /\ program = "langgraph_chat"
  /\ pc[r] = "chat_called"
  /\ extResult' = [extResult EXCEPT ![r] = <<Outcome(FALSE, reply)>>]
  /\ response' = [response EXCEPT ![r] = <<ChatResponse(req[r][1], reply)>>]
  /\ pc' = [pc EXCEPT ![r] = "returned"]
  /\ UNCHANGED <<nonChatVars, agentCalls, agent, chat_service, req, extCalls, streamVars, served>>

\* chat_service.run(prompt) raises: chat holds no handler
ChatServiceRaises(r, e) ==
  /\ program = "langgraph_chat"
  /\ pc[r] = "chat_called"
  /\ extResult' = [extResult EXCEPT ![r] = <<Outcome(TRUE, e)>>]
  /\ pc' = [pc EXCEPT ![r] = "raised_external"]
  /\ UNCHANGED <<nonChatVars, agentCalls, agent, chat_service, req, extCalls,
                 response, streamVars, served>>

LangGraphChatNext ==
  LET \* response.text of the Message chat_service.run gives back
      ChatReplies ==
        { <<"<","r","e","s","p","o","n","s","e",">"," ","4"," ","<","/","r","e","s","p","o","n","s","e",">">>,
          <<"h","m"," ","<","r","e","s","p","o","n","s","e",">","a","<","/","r","e","s","p","o","n","s","e",">","<","r","e","s","p","o","n","s","e",">","b","<","/","r","e","s","p","o","n","s","e",">">>,
          <<"<","r","e","s","p","o","n","s","e",">","o","o","p","s">> }
  IN
  \/ \E r \in RequestIds : Discard(r)
  \/ \E r \in RequestIds, request \in Requests : Chat(r, request)
  \/ \E r \in RequestIds, reply \in ChatReplies : ChatServiceReturns(r, reply)
  \/ \E r \in RequestIds, e \in ErrorTexts : ChatServiceRaises(r, e)

----------------------------------------------------------------------------
(* generate_summaries.py: generate_summary_with_bedrock, generate_summary_file, *)
(* main                                                                    *)

\* folder names of the command line and of folders_to_analyze; the empty name stands
\* for the None and '' entries a YAML list may hold
FolderNames ==
  LET Folder_c == <<"c">>
      Folder_a_under_b == <<"a","_","b">>
      Folder_a_slash_b == <<"a","/","b">>
  IN  {Folder_a_slash_b, Folder_a_under_b, Folder_c}
EmptyName == <<>>

\* safe_folder_name = folder_name.replace('/', '_');
\* output_file = ANALYSIS_DIR / f"{file_prefix}{safe_folder_name}.md"
OutputFile(folder_name) ==
  LET \* str.replace(old, new) for one-character old and new
      Replace(s, old, new) == [i \in 1..Len(s) |-> IF s[i] = old THEN new ELSE s[i]]
      MdSuffix == <<".","m","d">>
      \* config['output']['file_prefix']
      FilePrefix == <<"S","U","M","M","A","R","Y","-">>
  IN  FilePrefix \o Replace(folder_name, "/", "_") \o MdSuffix

OutputFiles == { OutputFile(f) : f \in FolderNames \cup {EmptyName} }

\* the lists of length at most n over S
SeqsUpTo(S, n) == UNION { [1..k -> S] : k \in 0..n }

\* the mutant of TargetFolders: the list of the configuration is not filtered
TargetFoldersUnfiltered(argv, folders_to_analyze) ==
  IF Len(argv) > 0 THEN argv ELSE folders_to_analyze

\* folders = sys.argv[1:] if len(sys.argv) > 1 else config['folders_to_analyze'];
\* without arguments the None and empty entries are filtered out
TargetFolders(argv, folders_to_analyze) ==
  IF Len(argv) > 0 THEN argv
  ELSE SelectSeq(folders_to_analyze, LAMBDA folder : folder # EmptyName)

\* the mutant of SkipExisting: the existing summary is not looked for
SkipNever(files, output_file) == FALSE

\* if output_file.exists(): the folder is skipped
SkipExisting(files, output_file) == files[output_file] # <<>>

\* the mutant of generate_summary_with_bedrock: the failure of converse is not caught
generate_summary_uncaught(outcome, text) ==
  CASE outcome = "raise" -> [raised |-> TRUE, summary |-> <<>>]
    [] outcome = "empty" -> [raised |-> FALSE, summary |-> <<NoText>>]
    [] outcome = "text"  -> [raised |-> FALSE, summary |-> <<text>>]

\* generate_summary_with_bedrock from bedrock.converse on: the cleaned text of the
\* response, or None (here <<>>) from except Exception
generate_summary_with_bedrock(outcome, text) ==
  CASE outcome = "raise" -> [raised |-> FALSE, summary |-> <<>>]
    [] outcome = "empty" -> [raised |-> FALSE, summary |-> <<NoText>>]
    [] outcome = "text"  -> [raised |-> FALSE, summary |-> <<text>>]

\* the mutant of MainAfterEntry: the loop is left at the first failure
MainStopsAtFailure(ret, success_count) ==
  IF ret THEN [pc |-> "sleep", success_count |-> success_count + 1]
  ELSE [pc |-> "done", success_count |-> success_count]

\* the body of main's loop after generate_summary_file returned ret
MainAfterEntry(ret, success_count) ==
  IF ret THEN [pc |-> "sleep", success_count |-> success_count + 1]
  ELSE [pc |-> "loop", success_count |-> success_count]

\* one entry of the run's log: what generate_summary_file met and did for a folder
LogEntry(folder, existed, on_disk, calls, outcome, ret) ==
  [folder |-> folder, existed |-> existed, on_disk |-> on_disk, calls |-> calls,
   outcome |-> outcome, ret |-> ret]

SummaryInit ==
  /\ \/ /\ program = "summaries"
        /\ \/ gArgv \in SeqsUpTo(FolderNames \cup {EmptyName}, MaxFolders) \ {<<>>} /\ gConfig = <<>>
           \/ gArgv = <<>> /\ gConfig \in SeqsUpTo(FolderNames \cup {EmptyName}, MaxFolders)
     \/ /\ program # "summaries"
        /\ gArgv = <<>> /\ gConfig = <<>>
  /\ gFolders = <<>>
  /\ gPc = "start"
  /\ gIdx = 0
  /\ gSuccess = 0
  /\ gLog = <<>>
  /\ gEvents = <<>>
  /\ gFiles = [f \in OutputFiles |-> <<>>]
  /\ gWrites = [f \in OutputFiles |-> 0]
  /\ gRun = 1

\* main up to the loop: load_config, read_file(PROMPT_TEMPLATE_PATH), the folder list
MainStart(loaded) ==
  /\ program = "summaries"
  /\ gPc = "start"
  /\ IF loaded = "ok"
     THEN /\ gFolders' = TargetFolders(gArgv, gConfig)
          /\ gPc' = "loop"
          /\ gIdx' = 1
     ELSE /\ gPc' = "exited"
          /\ UNCHANGED <<gFolders, gIdx>>
  /\ UNCHANGED <<nonSummaryVars, gArgv, gConfig, gSuccess, gLog, gEvents, gFiles, gWrites, gRun>>

\* generate_summary_file(folder, ...): the test of output_file.exists()
GenerateSummaryFile ==
  /\ program = "summaries"
  /\ gPc = "loop"
  /\ gIdx <= Len(gFolders)
  /\ LET folder == gFolders[gIdx]
         existed == gFiles[OutputFile(folder)] # <<>>
     IN  IF SkipExisting(gFiles, OutputFile(folder))
         THEN /\ gLog' = Append(gLog, LogEntry(folder, existed, TRUE, 0, "skipped", TRUE))
              /\ gPc' = MainAfterEntry(TRUE, gSuccess).pc
              /\ gSuccess' = MainAfterEntry(TRUE, gSuccess).success_count
         ELSE /\ gPc' = "content"
              /\ UNCHANGED <<gLog, gSuccess>>
  /\ UNCHANGED <<nonSummaryVars, gArgv, gConfig, gFolders, gIdx, gEvents, gFiles, gWrites, gRun>>

\* get_folder_content_summary: None when the folder does not exist, and then
\* generate_summary_with_bedrock returns None and generate_summary_file False
GetFolderContent(on_disk) ==
  /\ program = "summaries"
  /\ gPc = "content"
  /\ LET folder == gFolders[gIdx]
         existed == gFiles[OutputFile(folder)] # <<>>
     IN  IF on_disk
         THEN /\ gPc' = "client"
              /\ UNCHANGED <<gLog, gSuccess, gIdx>>
         ELSE /\ gLog' = Append(gLog, LogEntry(folder, existed, FALSE, 0, "no_folder", FALSE))
              /\ gPc' = MainAfterEntry(FALSE, gSuccess).pc
              /\ gSuccess' = MainAfterEntry(FALSE, gSuccess).success_count
              /\ gIdx' = IF MainAfterEntry(FALSE, gSuccess).pc = "loop" THEN gIdx + 1 ELSE gIdx
  /\ UNCHANGED <<nonSummaryVars, gArgv, gConfig, gFolders, gEvents, gFiles, gWrites, gRun>>

\* session = boto3.session.Session(); bedrock = boto3.client(...): outside the try, so
\* a failure leaves main as an exception
BuildBedrockClient(built) ==
  /\ program = "summaries"
  /\ gPc = "client"
  /\ gPc' = IF built THEN "converse" ELSE "crashed_client"
  /\ UNCHANGED <<nonSummaryVars, gArgv, gConfig, gFolders, gIdx, gSuccess, gLog, gEvents,
                 gFiles, gWrites, gRun>>

\* bedrock.converse(...) and what follows it: the response is cleaned and returned, or
\* the exception caught; generate_summary_file writes the summary if there is one; main
\* counts the success
Converse(outcome) ==
  LET \* `if summary:` of generate_summary_file
      Truthy(summary) == summary # <<>> /\ summary[1] # NoText
  IN
  /\ program = "summaries"
  /\ gPc = "converse"
  /\ LET folder == gFolders[gIdx]
         out == OutputFile(folder)
         existed == gFiles[out] # <<>>
         got == generate_summary_with_bedrock(outcome, <<gRun, gIdx>>)
         ret == Truthy(got.summary)
         after == MainAfterEntry(ret, gSuccess)
     IN  IF got.raised
         THEN /\ gPc' = "crashed_converse"
              /\ gEvents' = Append(gEvents, "converse")
              /\ UNCHANGED <<gLog, gSuccess, gIdx, gFiles, gWrites>>
         ELSE /\ gLog' = Append(gLog, LogEntry(folder, existed, TRUE, 1,
                                    CASE outcome = "raise" -> "call_failed"
                                      [] outcome = "empty" -> "empty"
                                      [] outcome = "text"  -> "written", ret))
              /\ gEvents' = gEvents \o <<"converse">> \o (IF ret THEN <<"write">> ELSE <<>>)
              /\ gFiles' = IF ret THEN [gFiles EXCEPT ![out] = got.summary] ELSE gFiles
              /\ gWrites' = IF ret THEN [gWrites EXCEPT ![out] = @ + 1] ELSE gWrites
              /\ gPc' = after.pc
              /\ gSuccess' = after.success_count
              /\ gIdx' = IF after.pc = "loop" THEN gIdx + 1 ELSE gIdx
  /\ UNCHANGED <<nonSummaryVars, gArgv, gConfig, gFolders, gRun>>

\* time.sleep(5), then the next folder
Sleep ==
  /\ program = "summaries"
  /\ gPc = "sleep"
  /\ gEvents' = Append(gEvents, "sleep")
  /\ gIdx' = gIdx + 1
  /\ gPc' = "loop"
  /\ UNCHANGED <<nonSummaryVars, gArgv, gConfig, gFolders, gSuccess, gLog, gFiles, gWrites, gRun>>

\* the loop is over: main prints the count and returns
MainEnd ==
  /\ program = "summaries"
  /\ gPc = "loop"
  /\ gIdx > Len(gFolders)
  /\ gPc' = "done"
  /\ UNCHANGED <<nonSummaryVars, gArgv, gConfig, gFolders, gIdx, gSuccess, gLog, gEvents,
                 gFiles, gWrites, gRun>>

\* the script is run again with the same arguments and configuration: only the files
\* in ANALYSIS_DIR remain from the earlier run
RunAgain ==
  /\ program = "summaries"
  /\ gPc \in {"done", "exited", "crashed_client", "crashed_converse"}
  /\ gRun < MaxRuns
  /\ gRun' = gRun + 1
  /\ gPc' = "start"
  /\ gFolders' = <<>>
  /\ gIdx' = 0
  /\ gSuccess' = 0
  /\ gLog' = <<>>
  /\ gEvents' = <<>>
  /\ UNCHANGED <<nonSummaryVars, gArgv, gConfig, gFiles, gWrites>>

SummariesNext ==
  \/ \E loaded \in {"ok", "no_config", "no_template"} : MainStart(loaded)
  \/ GenerateSummaryFile
  \/ \E on_disk \in BOOLEAN : GetFolderContent(on_disk)
  \/ \E built \in BOOLEAN : BuildBedrockClient(built)
  \/ \E outcome \in {"raise", "empty", "text"} : Converse(outcome)
  \/ Sleep
  \/ MainEnd
  \/ RunAgain

----------------------------------------------------------------------------
(* kb_tool.py: the module-level client and search_knowledge_base           *)

MockPrefix == <<"M","o","c","k"," ","R","A","G"," ","r","e","s","p","o","n","s","e"," ","f","o","r"," ","q","u","e","r","y",":"," ","'">>
MockSuffix == <<"'","."," ","T","h","i","s"," ","i","s"," ","a"," ","t","e","s","t"," ","r","e","s","p","o","n","s","e"," ","s","i","n","c","e"," ","n","o"," ","k","n","o","w","l","e","d","g","e"," ","b","a","s","e"," ","i","s"," ","c","o","n","f","i","g","u","r","e","d",".">>
NoRelevantText == <<"N","o"," ","r","e","l","e","v","a","n","t"," ","i","n","f","o","r","m","a","t","i","o","n"," ","f","o","u","n","d"," ","i","n"," ","t","h","e"," ","k","n","o","w","l","e","d","g","e"," ","b","a","s","e",".">>
ErrorPrefix == <<"E","r","r","o","r"," ","a","c","c","e","s","s","i","n","g"," ","k","n","o","w","l","e","d","g","e"," ","b","a","s","e",":"," ">>
ResultSeparator == <<"\n","\n">>

\* one entry of response['retrievalResults']: has_content and has_text say whether
\* the 'content' and 'text' keys are there, is_str whether the text is a string
RetrievalResult(has_content, has_text, is_str, text) ==
  [has_content |-> has_content, has_text |-> has_text, is_str |-> is_str, text |-> text]

\* result.get('content', {}).get('text', '')
ResultContent(result) ==
  IF result.has_content /\ result.has_text THEN result.text ELSE NoText

\* the mutant of CollectResults: the empty texts are kept
CollectAllResults(retrievalResults) ==
  [i \in 1..Len(retrievalResults) |-> ResultContent(retrievalResults[i])]

\* results: the non-empty contents, in the order of retrievalResults
RECURSIVE CollectResults(_)
CollectResults(retrievalResults) ==
  IF retrievalResults = <<>> THEN <<>>
  ELSE (IF ResultContent(Head(retrievalResults)) # NoText
        THEN <<ResultContent(Head(retrievalResults))>> ELSE <<>>)
       \o CollectResults(Tail(retrievalResults))

KbInit ==
  LET \* client = None without an identifier, else boto3.client('bedrock-agent-runtime')
      ModuleClient(id) == IF id = None \/ id = "" THEN None ELSE "bedrock-agent-runtime"
      \* os.getenv('KNOWLEDGE_BASE_ID'): unset, empty or an identifier
      KnowledgeBaseIds == {None, "", "KB12345"}
  IN
  /\ \/ program = "kb_tool" /\ knowledge_base_id \in KnowledgeBaseIds
     \/ program # "kb_tool" /\ knowledge_base_id = None
  /\ client = ModuleClient(knowledge_base_id)
  /\ kbSearches = 0
  /\ kbRetrieveCalls = 0
  /\ kbQuery = <<>>
  /\ kbOutcome = <<>>
  /\ kbReturn = <<>>

\* search_knowledge_base(query) without a client or an identifier: the mock answer
SearchMock(query) ==
  LET \* the mock answer of an unconfigured tool
      MockResponse(q) == MockPrefix \o q \o MockSuffix
  IN
  /\ program = "kb_tool"
  /\ kbSearches < MaxSearches
  /\ client = None \/ knowledge_base_id = None \/ knowledge_base_id = ""
  /\ kbSearches' = kbSearches + 1
  /\ kbQuery' = <<query>>
  /\ kbOutcome' = <<>>
  /\ kbReturn' = <<MockResponse(query)>>
  /\ UNCHANGED <<nonKbVars, knowledge_base_id, client, kbRetrieveCalls>>

\* search_knowledge_base(query) with a client: client.retrieve(...) and the try around it
SearchRetrieve(query, outcome) ==
  LET \* the body of the try of search_knowledge_base once client.retrieve has ended:
      \* outcome.raised says that retrieve raised (outcome.value is str(e)), else
      \* outcome.value is response.get('retrievalResults', [])
      SearchReturn ==
        LET TypeErrorText == <<"s","e","q","u","e","n","c","e"," ","i","t","e","m"," ","0",":"," ","e","x","p","e","c","t","e","d"," ","s","t","r"," ","i","n","s","t","a","n","c","e">>
        IN
        IF outcome.raised THEN ErrorPrefix \o outcome.value
        ELSE IF \E i \in 1..Len(outcome.value) :
                  /\ ResultContent(outcome.value[i]) # NoText
                  /\ ~outcome.value[i].is_str
             THEN ErrorPrefix \o TypeErrorText
        ELSE IF CollectResults(outcome.value) # <<>>
             THEN Join(ResultSeparator, CollectResults(outcome.value))
        ELSE NoRelevantText
  IN
  /\ program = "kb_tool"
  /\ kbSearches < MaxSearches
  /\ ~(client = None \/ knowledge_base_id = None \/ knowledge_base_id = "")
  /\ kbSearches' = kbSearches + 1
  /\ kbRetrieveCalls' = kbRetrieveCalls + 1
  /\ kbQuery' = <<query>>
  /\ kbOutcome' = <<outcome>>
  /\ kbReturn' = <<SearchReturn>>
  /\ UNCHANGED <<nonKbVars, knowledge_base_id, client>>

KbToolNext ==
  LET Query_q == <<"q","?">>
      \* what client.retrieve may do: raise, or answer with a list of results
      RetrieveOutcomes ==
        LET RetrievalResults ==
              { RetrievalResult(TRUE, TRUE, TRUE, <<"t","1">>),
                RetrievalResult(TRUE, TRUE, TRUE, <<"t","2">>),
                RetrievalResult(TRUE, TRUE, TRUE, NoText),
                RetrievalResult(TRUE, FALSE, TRUE, NoText),
                RetrievalResult(FALSE, FALSE, TRUE, NoText),
                RetrievalResult(TRUE, TRUE, FALSE, <<"7">>) }
        IN
        { Outcome(TRUE, e) : e \in ErrorTexts }
        \cup { Outcome(FALSE, rs) : rs \in SeqsUpTo(RetrievalResults, MaxResults) }
  IN
  \/ \E query \in {Query_q, NoText} : SearchMock(query)
  \/ \E query \in {Query_q, NoText}, outcome \in RetrieveOutcomes : SearchRetrieve(query, outcome)

----------------------------------------------------------------------------
(* The 'pods running' checks: TestAgenticChatEKS (pytest) and the two      *)
(* runners EKSAgenticChatTesterWithAuth, EKSLangGraphChatTesterWithAuth    *)

\* a pod of the listing: its phase and, when the status holds the key,
\* <<containerStatuses>>
Pods ==
  LET \* one entry of pod["status"]["containerStatuses"]: container["ready"] and
      \* container["state"]["running"]
      ContainerStatus(ready, running) == [ready |-> ready, running |-> running]
      \* the containerStatuses the model's pods carry
      ContainerStatusLists ==
        { <<>>,
          <<ContainerStatus(TRUE, TRUE)>>,
          <<ContainerStatus(FALSE, TRUE)>>,
          <<ContainerStatus(TRUE, FALSE)>>,
          <<ContainerStatus(TRUE, TRUE), ContainerStatus(FALSE, FALSE)>> }
  IN
  { [phase |-> ph, containerStatuses |-> cs] :
      ph \in {"Running", "Pending"},
      cs \in {<<>>} \cup { <<l>> : l \in ContainerStatusLists } }

\* how the kubectl command ended: CalledProcessError, output that is not the
\* expected JSON, or a pod listing
KubectlOutcomes == {"failed", "bad_json", "ok"}

\* TestAgenticChatEKS.test_agentic_chat_pods_running: TRUE when the test passes; a
\* failed assertion, pytest.fail and an uncaught KeyError or JSONDecodeError all fail
\* the test
TestAgenticChatEKS_pods_running(kubectl, pods) ==
  /\ kubectl = "ok"
  /\ Len(pods) > 0
  /\ \A i \in 1..Len(pods) :
       /\ pods[i].phase = "Running"
       /\ pods[i].containerStatuses # <<>>
       /\ \A j \in 1..Len(pods[i].containerStatuses[1]) :
            /\ pods[i].containerStatuses[1][j].ready
            /\ pods[i].containerStatuses[1][j].running

\* the loop of the runners over pods: all_running becomes False at a pod whose phase is
\* not Running; ready_containers is printed only
RECURSIVE all_running(_)
all_running(pods) ==
  LET \* ready_containers = sum(1 for c in container_statuses if c.get("ready", False)) with
      \* container_statuses = pod["status"].get("containerStatuses", [])
      ready_containers(pod) ==
        IF pod.containerStatuses = <<>> THEN 0
        ELSE Cardinality({ j \in 1..Len(pod.containerStatuses[1]) : pod.containerStatuses[1][j].ready })
  IN
  IF pods = <<>> THEN TRUE
  ELSE IF Head(pods).phase = "Running"
       THEN ready_containers(Head(pods)) >= 0 /\ all_running(Tail(pods))
       ELSE FALSE

\* EKSAgenticChatTesterWithAuth.test_agentic_chat_pods_running
EKSAgenticChatTesterWithAuth_pods_running(kubectl, pods) ==
  IF kubectl = "ok"
  THEN IF Len(pods) = 0 THEN FALSE ELSE all_running(pods)
  ELSE FALSE

\* EKSLangGraphChatTesterWithAuth.test_langgraph_chat_pods_running
EKSLangGraphChatTesterWithAuth_pods_running(kubectl, pods) ==
  IF kubectl = "ok"
  THEN IF Len(pods) = 0 THEN FALSE ELSE all_running(pods)
  ELSE FALSE

\* what `kubectl get pods -l app=... -o json` may list
PodListings == SeqsUpTo(Pods, MaxPods)

PodsInit ==
  /\ pChecker = None
  /\ pKubectl = <<>>
  /\ pPods = <<>>
  /\ pVerdict = <<>>

\* one of the three checks runs against the cluster
PodsRunningCheck(checker, kubectl, pods) ==
  /\ program = "pods_check"
  /\ pVerdict = <<>>
  /\ pChecker' = checker
  /\ pKubectl' = <<kubectl>>
  /\ pPods' = IF kubectl = "ok" THEN pods ELSE <<>>
  /\ pVerdict' =
       CASE checker = "TestAgenticChatEKS" ->
              <<TestAgenticChatEKS_pods_running(kubectl, pPods')>>
         [] checker = "EKSAgenticChatTesterWithAuth" ->
              <<EKSAgenticChatTesterWithAuth_pods_running(kubectl, pPods')>>
         [] checker = "EKSLangGraphChatTesterWithAuth" ->
              <<EKSLangGraphChatTesterWithAuth_pods_running(kubectl, pPods')>>
  /\ UNCHANGED nonPodsVars

\* the test process ends; the next check starts from a fresh process
PodsCheckOver ==
  /\ program = "pods_check"
  /\ pVerdict # <<>>
  /\ pChecker' = None
  /\ pKubectl' = <<>>
  /\ pPods' = <<>>
  /\ pVerdict' = <<>>
  /\ UNCHANGED nonPodsVars

PodsCheckNext ==
  LET PodCheckers == {"TestAgenticChatEKS", "EKSAgenticChatTesterWithAuth",
                      "EKSLangGraphChatTesterWithAuth"}
  IN
  \/ \E checker \in PodCheckers, kubectl \in KubectlOutcomes, pods \in PodListings :
       PodsRunningCheck(checker, kubectl, pods)
  \/ PodsCheckOver

----------------------------------------------------------------------------
(* generate_summaries.py: filter_files and get_folder_content_summary      *)

\* os.path.basename(file_path)
RECURSIVE Basename(_)
Basename(path) ==
  IF \E i \in 1..Len(path) : path[i] = "/"
  THEN Basename(Tail(path))
  ELSE path

\* fnmatch.fnmatch(name, pattern) for patterns of literal characters, '?' and '*'
\* ('*' matches any run of characters, '/' included)
RECURSIVE fnmatch(_, _)
fnmatch(name, pattern) ==
  IF pattern = <<>> THEN name = <<>>
  ELSE IF Head(pattern) = "*"
       THEN \/ fnmatch(name, Tail(pattern))
            \/ name # <<>> /\ fnmatch(Tail(name), pattern)
       ELSE /\ name # <<>>
            /\ Head(pattern) = "?" \/ Head(pattern) = Head(name)
            /\ fnmatch(Tail(name), Tail(pattern))

ReadmeName == <<"R","E","A","D","M","E",".","m","d">>

\* the folder is /f: its own README.md, a README.md of a sub-folder, and other files
Path_readme == <<"/","f","/">> \o ReadmeName

\* a file of the folder: its path, the length of what read_file returns for it (0 for
\* an empty or unreadable file) and, for a notebook, <<>> when json.loads fails on it
\* or <<its cells>>, each cell with its cell_type and the length of its joined source
File(path, chars, cells) == [path |-> path, chars |-> chars, cells |-> cells]

Cell(cell_type, chars) == [cell_type |-> cell_type, chars |-> chars]

SmallChars == 40
LargeChars == 720000
HugeChars == 800000

\* max_notebooks, max_python_files, ...: config.get(..., 1000)
DefaultMaxFiles == 1000

\* config['file_selection']: the patterns and the limits the model's configurations set
FileSelection(include_patterns, exclude_patterns, max_markdown_files) ==
  [ include_patterns |-> include_patterns, exclude_patterns |-> exclude_patterns,
    max_notebooks |-> DefaultMaxFiles, max_python_files |-> DefaultMaxFiles,
    max_markdown_files |-> max_markdown_files ]

\* the first loop of filter_files: the files whose base name matches an include pattern
important_files(files, config) ==
  SelectSeq(files, LAMBDA file :
    \E k \in 1..Len(config.include_patterns) :
      fnmatch(Basename(file.path), config.include_patterns[k]))

\* the second loop of filter_files: the files that match no exclude pattern and are not
\* in important_files
filtered_files(files, config) ==
  LET \* exclude_match of the second loop of filter_files
      exclude_match(file) ==
        \E k \in 1..Len(config.exclude_patterns) :
          \/ fnmatch(file.path, config.exclude_patterns[k])
          \/ fnmatch(Basename(file.path), config.exclude_patterns[k])
  IN
  SelectSeq(files, LAMBDA file :
    /\ ~exclude_match(file)
    /\ \A k \in 1..Len(important_files(files, config)) :
         important_files(files, config)[k].path # file.path)

\* filter_files(files, config): return important_files, filtered_files
filter_files(files, config) ==
  [ important_files |-> important_files(files, config),
    filtered_files |-> filtered_files(files, config) ]

\* max_tokens = 190000
max_tokens == 190000

\* len(s) // 4, the token estimate of a text of that many characters
TokensOf(chars) == chars \div 4

\* file_header = f"### {os.path.basename(path)}\n\n"
FileHeaderChars(path) == 4 + Len(Basename(path)) + 2

\* the characters a fenced block adds around its content: f"```python\n{...}\n```\n\n",
\* ```yaml, ```hcl, ```bash and the bare ```
FenceChars(kind) ==
  CASE kind = "python"    -> 16
    [] kind = "yaml"      -> 14
    [] kind = "terraform" -> 13
    [] kind = "shell"     -> 14
    [] kind = "text"      -> 10

\* one entry of the trace of the content loops: a header, a content, a cell or a note
\* appended to content_summary, or a file passed over by `continue`
Part(kind, path, tokens) == [kind |-> kind, path |-> path, tokens |-> tokens]

\* the list each content loop runs over, with its limit applied
LoopPaths(kind, important, filtered, config) ==
  LET \* [f for f in important_files if f.endswith(ext)] + [f for f in filtered_files if ...]
      PathsWith(exts) ==
        LET \* str.endswith(suffix)
            EndsWith(s, suffix) ==
              /\ Len(s) >= Len(suffix)
              /\ SubSeq(s, Len(s) - Len(suffix) + 1, Len(s)) = suffix
        IN
        SelectSeq(important, LAMBDA f : \E e \in exts : EndsWith(f.path, e))
          \o SelectSeq(filtered, LAMBDA f : \E e \in exts : EndsWith(f.path, e))
      \* seq[:n]
      Take(seq, n) == SubSeq(seq, 1, IF n < Len(seq) THEN n ELSE Len(seq))
      Ext_txt == <<".","t","x","t">>
      Ext_sh == <<".","s","h">>
      Ext_tf == <<".","t","f">>
      Ext_yml == <<".","y","m","l">>
      Ext_yaml == <<".","y","a","m","l">>
      Ext_md == <<".","m","d">>
      Ext_py == <<".","p","y">>
      Ext_ipynb == <<".","i","p","y","n","b">>
  IN
  CASE kind = "notebooks" -> Take(PathsWith({Ext_ipynb}), config.max_notebooks)
    [] kind = "python"    -> Take(PathsWith({Ext_py}), config.max_python_files)
    [] kind = "markdown"  -> Take(PathsWith({Ext_md}), config.max_markdown_files)
    [] kind = "yaml"      -> Take(PathsWith({Ext_yaml, Ext_yml}), DefaultMaxFiles)
    [] kind = "terraform" -> Take(PathsWith({Ext_tf}), DefaultMaxFiles)
    [] kind = "shell"     -> Take(PathsWith({Ext_sh}), DefaultMaxFiles)
    [] kind = "text"      -> Take(PathsWith({Ext_txt}), DefaultMaxFiles)

\* the loop that follows each content loop
NextLoop(kind) ==
  CASE kind = "notebooks" -> "python"
    [] kind = "python"    -> "markdown"
    [] kind = "markdown"  -> "yaml"
    [] kind = "yaml"      -> "terraform"
    [] kind = "terraform" -> "shell"
    [] kind = "shell"     -> "text"
    [] kind = "text"      -> "returned"

\* the loop over the cells of a notebook, from tokens_used = tokens: markdown and code
\* cells are appended while they fit the budget, the first that does not fit ends the
\* loop with a note; cells of other types are passed over
RECURSIVE NotebookCells(_, _, _, _)
NotebookCells(path, cells, tokens, parts) ==
  IF cells = <<>> THEN [tokens |-> tokens, parts |-> parts]
  ELSE LET cell == Head(cells)
           cell_tokens == IF cell.cell_type = "markdown" THEN TokensOf(cell.chars)
                          ELSE TokensOf(cell.chars + FenceChars("python"))
       IN  IF cell.cell_type \notin {"markdown", "code"}
           THEN NotebookCells(path, Tail(cells), tokens, parts)
           ELSE IF tokens + cell_tokens > max_tokens
           THEN [tokens |-> tokens, parts |-> Append(parts, Part("note", path, 0))]
           ELSE NotebookCells(path, Tail(cells), tokens + cell_tokens,
                              Append(parts, Part("cell", path, cell_tokens)))

\* if os.path.basename(md_path) == "README.md": continue
SkipsAsIncluded(file) == Basename(file.path) = ReadmeName

\* `if tokens_used > max_tokens * 0.9` (0.95 in the markdown loop)
ApproachingLimit(kind, tokens) ==
  IF kind = "markdown" THEN tokens * 100 > max_tokens * 95
  ELSE tokens * 10 > max_tokens * 9

FolderInit ==
  LET Pattern_test == <<"t","_","*">>
      Pattern_md == <<"*",".","m","d">>
      Path_notebook == <<"/","f","/","n",".","i","p","y","n","b">>
      Path_test_py == <<"/","f","/","t","_","a",".","p","y">>
      Path_py == <<"/","f","/","a",".","p","y">>
      Path_guide == <<"/","f","/","g",".","m","d">>
      \* the listings of at most MaxFiles files with different paths
      FileListings ==
        LET FileCatalogue ==
              LET Path_txt == <<"/","f","/","x",".","t","x","t">>
                  Path_sh == <<"/","f","/","s",".","s","h">>
                  Path_tf == <<"/","f","/","m",".","t","f">>
                  Path_yml == <<"/","f","/","c",".","y","m","l">>
                  Path_sub_readme == <<"/","f","/","d","/">> \o ReadmeName
              IN
              { File(Path_readme, SmallChars, <<>>),
                File(Path_sub_readme, SmallChars, <<>>),
                File(Path_guide, SmallChars, <<>>),
                File(Path_guide, HugeChars, <<>>),
                File(Path_py, SmallChars, <<>>),
                File(Path_py, LargeChars, <<>>),
                File(Path_test_py, HugeChars, <<>>),
                File(Path_test_py, 0, <<>>),
                File(Path_notebook, SmallChars, <<>>),
                File(Path_notebook, HugeChars,
                     << <<Cell("markdown", SmallChars), Cell("code", LargeChars), Cell("raw", SmallChars),
                          Cell("markdown", HugeChars), Cell("code", SmallChars)>> >>),
                File(Path_yml, SmallChars, <<>>),
                File(Path_tf, LargeChars, <<>>),
                File(Path_sh, SmallChars, <<>>),
                File(Path_txt, HugeChars, <<>>) }
        IN
        { l \in SeqsUpTo(FileCatalogue, MaxFiles) :
            \A i, j \in 1..Len(l) : i # j => l[i].path # l[j].path }
      \* the lengths content_summary may have when the content of the key files begins: the
      \* title, the README, the statistics and the file lists
      PreambleChars == {SmallChars, HugeChars}
      Configs ==
        LET Pattern_sub == <<"*","/","d","/","*">>
            Pattern_py == <<"*",".","p","y">>
        IN
        { FileSelection(<<>>, <<>>, DefaultMaxFiles),
          FileSelection(<<Pattern_md>>, <<ReadmeName>>, DefaultMaxFiles),
          FileSelection(<<>>, <<Pattern_sub, Pattern_test>>, DefaultMaxFiles),
          FileSelection(<<Pattern_py, Pattern_md>>, <<Pattern_test>>, 1) }
  IN
  /\ \/ /\ program = "folder_content"
        /\ fFiles \in FileListings
        /\ fConfig \in Configs
        /\ fPreamble \in PreambleChars
     \/ /\ program # "folder_content"
        /\ fFiles = <<>>
        /\ fConfig = FileSelection(<<>>, <<>>, DefaultMaxFiles)
        /\ fPreamble = SmallChars
  /\ fImportant = <<>>
  /\ fFiltered = <<>>
  /\ fPc = "start"
  /\ fIdx = 0
  /\ fTokens = 0
  /\ fParts = <<>>

\* get_folder_content_summary up to the content loops: None when the folder does not
\* exist; else filter_files, the preamble and tokens_used = len(content_summary) // 4
FolderStart(exists) ==
  /\ program = "folder_content"
  /\ fPc = "start"
  /\ IF exists
     THEN /\ fImportant' = filter_files(fFiles, fConfig).important_files
          /\ fFiltered' = filter_files(fFiles, fConfig).filtered_files
          /\ fTokens' = TokensOf(fPreamble)
          /\ fPc' = "notebooks"
          /\ fIdx' = 1
     ELSE /\ fPc' = "none"
          /\ UNCHANGED <<fImportant, fFiltered, fTokens, fIdx>>
  /\ UNCHANGED <<nonFolderVars, fFiles, fConfig, fPreamble, fParts>>

\* one turn of `for notebook_path in notebook_paths[:max_notebooks]`
NotebookStep ==
  LET \* error_msg = "Could not parse notebook content.\n\n"
      ErrorMsgChars == 35
      \* the body of the notebook loop for one notebook
      NotebookBody(file, tokens, parts) ==
        IF file.chars = 0 THEN [tokens |-> tokens, parts |-> parts]
        ELSE LET header == TokensOf(FileHeaderChars(file.path))
                 with_header == Append(parts, Part("header", file.path, header))
             IN  IF file.cells = <<>>
                 THEN [tokens |-> tokens + header + TokensOf(ErrorMsgChars),
                       parts |-> Append(with_header, Part("error", file.path, TokensOf(ErrorMsgChars)))]
                 ELSE NotebookCells(file.path, file.cells[1], tokens + header, with_header)
  IN
  /\ program = "folder_content"
  /\ fPc = "notebooks"
  /\ fIdx <= Len(LoopPaths(fPc, fImportant, fFiltered, fConfig))
  /\ LET file == LoopPaths(fPc, fImportant, fFiltered, fConfig)[fIdx]
         body == NotebookBody(file, fTokens, fParts)
     IN  /\ fTokens' = body.tokens
         /\ fParts' = body.parts
  /\ fIdx' = fIdx + 1
  /\ UNCHANGED <<nonFolderVars, fFiles, fConfig, fPreamble, fImportant, fFiltered, fPc>>

\* one turn of the Python, YAML, Terraform, shell or text loop
CodeFileStep ==
  LET \* the body of the Python, YAML, Terraform, shell and text loops for one file, after
      \* the test of the approaching limit
      CodeFileBody(kind, file, tokens, parts) ==
        IF file.chars = 0 THEN [tokens |-> tokens, parts |-> parts]
        ELSE LET header == TokensOf(FileHeaderChars(file.path))
                 code_tokens == TokensOf(file.chars + FenceChars(kind))
             IN  IF tokens + header + code_tokens > max_tokens
                 THEN [tokens |-> tokens + header,
                       parts |-> parts \o <<Part("header", file.path, header),
                                             Part("note", file.path, 0)>>]
                 ELSE [tokens |-> tokens + header + code_tokens,
                       parts |-> parts \o <<Part("header", file.path, header),
                                             Part("content", file.path, code_tokens)>>]
  IN
  /\ program = "folder_content"
  /\ fPc \in {"python", "yaml", "terraform", "shell", "text"}
  /\ fIdx <= Len(LoopPaths(fPc, fImportant, fFiltered, fConfig))
  /\ LET file == LoopPaths(fPc, fImportant, fFiltered, fConfig)[fIdx]
         body == CodeFileBody(fPc, file, fTokens, fParts)
     IN  IF ApproachingLimit(fPc, fTokens)
         THEN /\ fParts' = Append(fParts, Part("note", <<>>, 0))
              /\ fPc' = NextLoop(fPc)
              /\ fIdx' = 1
              /\ UNCHANGED fTokens
         ELSE /\ fTokens' = body.tokens
              /\ fParts' = body.parts
              /\ fIdx' = fIdx + 1
              /\ UNCHANGED fPc
  /\ UNCHANGED <<nonFolderVars, fFiles, fConfig, fPreamble, fImportant, fFiltered>>

\* one turn of `for md_path in markdown_paths[:max_markdown_files]`
MarkdownStep ==
  LET \* the body of the markdown loop for one file that is not passed over, after the test
      \* of the approaching limit: header and content are appended
      MarkdownBody(file, tokens, parts) ==
        IF file.chars = 0 THEN [tokens |-> tokens, parts |-> parts]
        ELSE LET header == TokensOf(FileHeaderChars(file.path))
             IN  [tokens |-> tokens + header + TokensOf(file.chars),
                  parts |-> parts \o <<Part("header", file.path, header),
                                        Part("content", file.path, TokensOf(file.chars))>>]
  IN
  /\ program = "folder_content"
  /\ fPc = "markdown"
  /\ fIdx <= Len(LoopPaths(fPc, fImportant, fFiltered, fConfig))
  /\ LET file == LoopPaths(fPc, fImportant, fFiltered, fConfig)[fIdx]
         body == MarkdownBody(file, fTokens, fParts)
     IN  IF SkipsAsIncluded(file)
         THEN /\ fParts' = Append(fParts, Part("skipped", file.path, 0))
              /\ fIdx' = fIdx + 1
              /\ UNCHANGED <<fTokens, fPc>>
         ELSE IF ApproachingLimit(fPc, fTokens)
         THEN /\ fParts' = Append(fParts, Part("note", <<>>, 0))
              /\ fPc' = NextLoop(fPc)
              /\ fIdx' = 1
              /\ UNCHANGED fTokens
         ELSE /\ fTokens' = body.tokens
              /\ fParts' = body.parts
              /\ fIdx' = fIdx + 1
              /\ UNCHANGED fPc
  /\ UNCHANGED <<nonFolderVars, fFiles, fConfig, fPreamble, fImportant, fFiltered>>

\* a content loop has gone through its list: the next loop begins, or the function
\* returns content_summary
LoopEnd ==
  LET ContentLoops == {"notebooks", "python", "markdown", "yaml", "terraform", "shell", "text"}
  IN
  /\ program = "folder_content"
  /\ fPc \in ContentLoops
  /\ fIdx > Len(LoopPaths(fPc, fImportant, fFiltered, fConfig))
  /\ fPc' = NextLoop(fPc)
  /\ fIdx' = 1
  /\ UNCHANGED <<nonFolderVars, fFiles, fConfig, fPreamble, fImportant, fFiltered,
                 fTokens, fParts>>

FolderContentNext ==
  \/ \E exists \in BOOLEAN : FolderStart(exists)
  \/ NotebookStep
  \/ CodeFileStep
  \/ MarkdownStep
  \/ LoopEnd

----------------------------------------------------------------------------
(* The EKS runners: EKSAgenticChatTesterWithAuth and                        *)
(* EKSLangGraphChatTesterWithAuth, run_all_tests and main                   *)

\* tests = [...] of run_all_tests
BasicTests(runner) ==
  IF runner = "agentic_chat"
  THEN <<"EKS Cluster Connection", "Agentic Chat Service Exists",
         "Agentic Chat Pods Running", "Service Logs">>
  ELSE <<"EKS Cluster Connection", "LangGraph Chat Service Exists",
         "LangGraph Chat Pods Running", "Service Logs">>

PodsTests == {"Agentic Chat Pods Running", "LangGraph Chat Pods Running"}

\* endpoint_tests = [...] of run_all_tests
EndpointTests(runner) ==
  IF runner = "agentic_chat"
  THEN <<"Health Endpoint (No Auth)", "Invoke Endpoint (With Auth)",
         "Streaming Endpoint (With Auth)">>
  ELSE <<"Health Endpoint (No Auth)", "Ping Endpoint (With Auth)",
         "Chat Endpoint (With Auth)", "Invocations Endpoint (With Auth)",
         "Complex Query (With Auth)">>

\* one entry of basic_results and endpoint_results: (test_name, result)
TestResult(test_name, result) == [test_name |-> test_name, result |-> result]

\* the result run_all_tests records for a test: what it returned, False when it raised
RecordedResult(outcome) == outcome = "pass"

\* the mutant of all_passed: one passing test is enough
any_passed(results) == \E i \in 1..Len(results) : results[i].result

\* all(result for _, result in basic_results)
all_passed(results) == \A i \in 1..Len(results) : results[i].result

\* stop_port_forward on the tester whose port_forward_process is process, the process
\* being in state state: terminate() signals a process that still runs, wait() reaps it
stop_port_forward(process, state, signals) ==
  IF process # None
  THEN [process |-> None, state |-> "exited",
        signals |-> IF state = "running" THEN signals + 1 ELSE signals]
  ELSE [process |-> process, state |-> state, signals |-> signals]

\* how the script ended
Exit(code, cause) == [code |-> code, cause |-> cause]

RunnerInit ==
  LET Runners == {"agentic_chat", "langgraph_chat"}
  IN
  /\ kRunner \in (IF program = "eks_runner" THEN Runners ELSE {"agentic_chat"})
  /\ kPc = "start"
  /\ kIdx = 0
  /\ kToken = None
  /\ kBasic = <<>>
  /\ kEndpoint = <<>>
  /\ kHttp = <<>>
  /\ kProc = None
  /\ kProcState = "not_started"
  /\ kPopen = 0
  /\ kSignals = 0
  /\ kExit = <<>>

\* self.auth_token = self.get_m2m_token(): the secret is read and the token requested
\* with requests.post; every failure gives None
GetM2mToken(outcome) ==
  /\ program = "eks_runner"
  /\ kPc = "start"
  /\ kToken' = IF outcome = "token" THEN "token" ELSE None
  /\ kHttp' = IF outcome = "no_secret" THEN kHttp ELSE Append(kHttp, "token_url")
  /\ kPc' = "basic"
  /\ kIdx' = 1
  /\ UNCHANGED <<nonRunnerVars, kRunner, kBasic, kEndpoint, kProc, kProcState, kPopen,
                 kSignals, kExit>>

\* the loop of the basic tests, one test: result = test_func(), or False when it raised
BasicTestRuns(result) ==
  /\ kBasic' = Append(kBasic, TestResult(BasicTests(kRunner)[kIdx], result))
  /\ kIdx' = IF kIdx = Len(BasicTests(kRunner)) THEN 0 ELSE kIdx + 1
  /\ kPc' = IF kIdx = Len(BasicTests(kRunner)) THEN "forward" ELSE "basic"
  /\ UNCHANGED <<nonRunnerVars, kRunner, kToken, kEndpoint, kHttp, kProc, kProcState,
                 kPopen, kSignals, kExit>>

\* a basic test other than the pods test runs
BasicTest(outcome) ==
  /\ program = "eks_runner"
  /\ kPc = "basic"
  /\ BasicTests(kRunner)[kIdx] \notin PodsTests
  /\ BasicTestRuns(RecordedResult(outcome))

\* the pods test runs against the cluster
BasicPodsTest(kubectl, pods) ==
  /\ program = "eks_runner"
  /\ kPc = "basic"
  /\ BasicTests(kRunner)[kIdx] \in PodsTests
  /\ BasicTestRuns(IF kRunner = "agentic_chat"
                   THEN EKSAgenticChatTesterWithAuth_pods_running(kubectl, pods)
                   ELSE EKSLangGraphChatTesterWithAuth_pods_running(kubectl, pods))

\* `if all(...)` holds and self.start_port_forward() runs: Popen raises, or the process
\* has exited after the three seconds, or it runs
StartPortForward(outcome) ==
  /\ program = "eks_runner"
  /\ kPc = "forward"
  /\ all_passed(kBasic)
  /\ kProc' = IF outcome = "popen_raises" THEN None ELSE "process"
  /\ kProcState' = CASE outcome = "popen_raises" -> kProcState
                      [] outcome = "exited" -> "exited"
                      [] outcome = "running" -> "running"
  /\ kPopen' = IF outcome = "popen_raises" THEN kPopen ELSE kPopen + 1
  /\ IF outcome = "running"
     THEN /\ kPc' = "endpoint"
          /\ kIdx' = 1
          /\ UNCHANGED kEndpoint
     ELSE /\ kPc' = "summary"
          /\ kEndpoint' = <<TestResult("Port Forwarding", FALSE)>>
          /\ UNCHANGED kIdx
  /\ UNCHANGED <<nonRunnerVars, kRunner, kToken, kBasic, kHttp, kSignals, kExit>>

\* `if all(...)` fails: no port-forward and no endpoint test
SkipEndpointTests ==
  /\ program = "eks_runner"
  /\ kPc = "forward"
  /\ ~all_passed(kBasic)
  /\ kPc' = "summary"
  /\ UNCHANGED <<nonRunnerVars, kRunner, kIdx, kToken, kBasic, kEndpoint, kHttp, kProc,
                 kProcState, kPopen, kSignals, kExit>>

\* the loop of the endpoint tests, one test: result = await test_func(); a test that
\* needs the token returns False without a request when there is none
EndpointTest(outcome) ==
  LET \* the endpoint tests that begin with `if not self.auth_token: return False`
      NeedsToken(test_name) == test_name # "Health Endpoint (No Auth)"
  IN
  /\ program = "eks_runner"
  /\ kPc = "endpoint"
  /\ LET test_name == EndpointTests(kRunner)[kIdx]
         no_token == NeedsToken(test_name) /\ kToken = None
     IN  /\ no_token => outcome = "fail"
         /\ kHttp' = IF no_token \/ outcome = "raise" THEN kHttp ELSE Append(kHttp, test_name)
         /\ kEndpoint' = Append(kEndpoint, TestResult(test_name, RecordedResult(outcome)))
  /\ kIdx' = IF kIdx = Len(EndpointTests(kRunner)) THEN 0 ELSE kIdx + 1
  /\ kPc' = IF kIdx = Len(EndpointTests(kRunner)) THEN "stop" ELSE "endpoint"
  /\ UNCHANGED <<nonRunnerVars, kRunner, kToken, kBasic, kProc, kProcState, kPopen,
                 kSignals, kExit>>

\* self.stop_port_forward() after the loop of the endpoint tests
StopPortForward ==
  /\ program = "eks_runner"
  /\ kPc = "stop"
  /\ kProc' = stop_port_forward(kProc, kProcState, kSignals).process
  /\ kProcState' = stop_port_forward(kProc, kProcState, kSignals).state
  /\ kSignals' = stop_port_forward(kProc, kProcState, kSignals).signals
  /\ kPc' = "summary"
  /\ UNCHANGED <<nonRunnerVars, kRunner, kIdx, kToken, kBasic, kEndpoint, kHttp, kPopen,
                 kExit>>

\* the summary, `return passed == total`, and sys.exit(0 if success else 1) of main
Summary ==
  /\ program = "eks_runner"
  /\ kPc = "summary"
  /\ kExit' = <<Exit(IF all_passed(kBasic \o kEndpoint) THEN 0 ELSE 1, "return")>>
  /\ kPc' = "exited"
  /\ UNCHANGED <<nonRunnerVars, kRunner, kIdx, kToken, kBasic, kEndpoint, kHttp, kProc,
                 kProcState, kPopen, kSignals>>

\* main's handlers, `except KeyboardInterrupt` and `except Exception`:
\* tester.stop_port_forward(); sys.exit(1)
MainHandler(cause) ==
  /\ kProc' = stop_port_forward(kProc, kProcState, kSignals).process
  /\ kProcState' = stop_port_forward(kProc, kProcState, kSignals).state
  /\ kSignals' = stop_port_forward(kProc, kProcState, kSignals).signals
  /\ kExit' = <<Exit(1, cause)>>
  /\ kPc' = "exited"
  /\ UNCHANGED <<nonRunnerVars, kRunner, kIdx, kToken, kBasic, kEndpoint, kHttp, kPopen>>

\* the user interrupts the run (SIGINT). When the signal is raised in the coroutine's
\* own code it is a KeyboardInterrupt, which no `except Exception` of run_all_tests
\* catches and main's handler does. While the coroutine waits in `await test_func()`
\* asyncio.run cancels the main task instead: the coroutine gets CancelledError, a
\* BaseException that neither handler of main catches, and the script ends
Interrupt(raised) ==
  /\ program = "eks_runner"
  /\ kPc \in {"start", "basic", "forward", "endpoint", "stop", "summary"}
  /\ IF raised = "KeyboardInterrupt"
     THEN MainHandler("KeyboardInterrupt")
     ELSE /\ kPc = "endpoint"
          /\ kExit' = <<Exit(130, "CancelledError")>>
          /\ kPc' = "exited"
          /\ UNCHANGED <<nonRunnerVars, kRunner, kIdx, kToken, kBasic, kEndpoint, kHttp,
                         kProc, kProcState, kPopen, kSignals>>

\* an exception leaves run_all_tests outside its try blocks (a print that fails)
UnexpectedError ==
  /\ program = "eks_runner"
  /\ kPc \in {"start", "summary"}
  /\ MainHandler("Exception")

EksRunnerNext ==
  \/ \E outcome \in {"no_secret", "denied", "token"} : GetM2mToken(outcome)
  \/ \E outcome \in {"pass", "fail", "raise"} : BasicTest(outcome)
  \/ \E kubectl \in KubectlOutcomes, pods \in PodListings : BasicPodsTest(kubectl, pods)
  \/ \E outcome \in {"popen_raises", "exited", "running"} : StartPortForward(outcome)
  \/ SkipEndpointTests
  \/ \E outcome \in {"pass", "fail", "raise"} : EndpointTest(outcome)
  \/ StopPortForward
  \/ Summary
  \/ \E raised \in {"KeyboardInterrupt", "CancelledError"} : Interrupt(raised)
  \/ UnexpectedError

----------------------------------------------------------------------------
(* generate_summaries.py: clean_model_response                             *)

Newline == <<"\n">>
SummaryHeading == <<"#"," ","S","U","M","M","A","R","Y">>
Fence ==
  LET \* the backtick character, which no TLA+ string can hold
      Backtick == "backtick"
  IN  <<Backtick, Backtick, Backtick>>
MermaidOpen == Fence \o <<"m","e","r","m","a","i","d">>
MermaidWord == <<"m","e","r","m","a","i","d">>
SubgraphWord == <<"s","u","b","g","r","a","p","h">>
Indent == <<" "," "," "," ">>

\* str.startswith(prefix)
StartsWith(s, prefix) ==
  /\ Len(s) >= Len(prefix)
  /\ SubSeq(s, 1, Len(prefix)) = prefix

\* pat stands at offset i of s
At(s, i, pat) ==
  /\ i >= 1
  /\ i + Len(pat) - 1 <= Len(s)
  /\ SubSeq(s, i, i + Len(pat) - 1) = pat

\* s[i:]
From(s, i) == SubSeq(s, i, Len(s))

\* where a run of whitespace that begins at offset i of s ends: the offset of the
\* first character from i on that is not whitespace, Len(s) + 1 when there is none
RunEnd(s, i) ==
  LET others == { j \in i..Len(s) : s[j] \notin Whitespace }
  IN  IF others = {} THEN Len(s) + 1 ELSE CHOOSE j \in others : \A k \in others : j <= k

\* str.split('\n')
RECURSIVE Split(_)
Split(s) ==
  LET k == Find(Newline, s, 1)
  IN  IF k = 0 THEN <<s>>
      ELSE <<SubSeq(s, 1, k - 1)>> \o Split(From(s, k + 1))

\* if "# SUMMARY" in response: response = response[response.find("# SUMMARY"):]
CutAtSummary(s) ==
  IF Find(SummaryHeading, s, 1) = 0 THEN s
  ELSE From(s, Find(SummaryHeading, s, 1))

\* the loop that finds start_index, the first line that starts with "# SUMMARY" (the
\* first line when there is none), and response = '\n'.join(lines[start_index:])
DropIntroduction(s) ==
  LET lines == Split(s)
      hits == { i \in 1..Len(lines) : StartsWith(lines[i], SummaryHeading) }
      start == IF hits = {} THEN 1 ELSE CHOOSE i \in hits : \A j \in hits : i <= j
  IN  Join(Newline, SubSeq(lines, start, Len(lines)))

\* re.sub(r'```\s*```', '', response)
RECURSIVE RemoveEmptyFences(_)
RemoveEmptyFences(s) ==
  IF s = <<>> THEN <<>>
  ELSE IF At(s, 1, Fence) /\ At(s, RunEnd(s, 4), Fence)
       THEN RemoveEmptyFences(From(s, RunEnd(s, 4) + 3))
       ELSE <<Head(s)>> \o RemoveEmptyFences(Tail(s))

\* one re.sub(pattern, r'```mermaid\n\1\n    subgraph', response, flags=re.DOTALL)
RECURSIVE MergeSplitDiagramsOnce(_)
MergeSplitDiagramsOnce(s) ==
  LET \* for a match of r'```mermaid\n(.*?)\n```\s*\n\s*subgraph' (DOTALL) at the start of s:
      \* the offset where the group ends, 0 when s does not begin with a match
      SplitDiagramAt ==
        LET \* a match of r'\n```\s*\n\s*subgraph' at offset q of s: the run of whitespace after the
            \* fence holds a newline and ends at "subgraph"
            ClosedBeforeSubgraph(q) ==
              /\ At(s, q, Newline \o Fence)
              /\ \E j \in (q + 4)..(RunEnd(s, q + 4) - 1) : s[j] = "\n"
              /\ At(s, RunEnd(s, q + 4), SubgraphWord)
            from == Len(MermaidOpen) + 2
            ends == { q \in from..Len(s) : ClosedBeforeSubgraph(q) }
        IN  IF ~StartsWith(s, MermaidOpen \o Newline) \/ ends = {} THEN 0
            ELSE CHOOSE q \in ends : \A r \in ends : q <= r
  IN
  IF s = <<>> THEN <<>>
  ELSE LET g == SplitDiagramAt
       IN  IF g # 0
           THEN SubSeq(s, 1, g - 1) \o Newline \o Indent \o SubgraphWord
                  \o MergeSplitDiagramsOnce(From(s, RunEnd(s, g + 4) + Len(SubgraphWord)))
           ELSE <<Head(s)>> \o MergeSplitDiagramsOnce(Tail(s))

\* while re.search(pattern, response, re.DOTALL): response = re.sub(...)
RECURSIVE MergeSplitDiagrams(_)
MergeSplitDiagrams(s) ==
  IF MergeSplitDiagramsOnce(s) = s THEN s
  ELSE MergeSplitDiagrams(MergeSplitDiagramsOnce(s))

\* re.sub(r'(\n|^)mermaid\s*\n(flowchart|graph|...)', r'\1```mermaid\n\2', response),
\* from offset i of s on
RECURSIVE FenceBareMermaid(_, _)
FenceBareMermaid(s, i) ==
  LET \* a match of r'mermaid\s*\n(flowchart|graph|...)' at offset m of s: the offset of the
      \* diagram type, 0 when there is no match
      BareMermaidAt(m) ==
        LET \* the diagram types of the pattern that finds a bare "mermaid" line
            DiagramTypes ==
              << <<"f","l","o","w","c","h","a","r","t">>,
                 <<"g","r","a","p","h">>,
                 <<"s","e","q","u","e","n","c","e","D","i","a","g","r","a","m">>,
                 <<"c","l","a","s","s","D","i","a","g","r","a","m">>,
                 <<"s","t","a","t","e","D","i","a","g","r","a","m">>,
                 <<"g","a","n","t","t">>,
                 <<"p","i","e">>,
                 <<"j","o","u","r","n","e","y">>,
                 <<"g","i","t","G","r","a","p","h">>,
                 <<"m","i","n","d","m","a","p">>,
                 <<"t","i","m","e","l","i","n","e">>,
                 <<"s","a","n","k","e","y">>,
                 <<"r","e","q","u","i","r","e","m","e","n","t">>,
                 <<"e","r","D","i","a","g","r","a","m">> >>
            t == RunEnd(s, m + Len(MermaidWord))
        IN  IF /\ At(s, m, MermaidWord)
               /\ t > m + Len(MermaidWord)
               /\ s[t - 1] = "\n"
               /\ \E k \in 1..Len(DiagramTypes) : At(s, t, DiagramTypes[k])
            THEN t ELSE 0
  IN
  IF i > Len(s) THEN <<>>
  ELSE IF s[i] = "\n" /\ BareMermaidAt(i + 1) # 0
       THEN Newline \o MermaidOpen \o Newline
              \o FenceBareMermaid(s, BareMermaidAt(i + 1))
       ELSE IF i = 1 /\ BareMermaidAt(1) # 0
       THEN MermaidOpen \o Newline \o FenceBareMermaid(s, BareMermaidAt(1))
       ELSE <<s[i]>> \o FenceBareMermaid(s, i + 1)

\* the state of the loop `while i < len(lines)`: the result list and in_mermaid
LoopState(result, in_mermaid) == [result |-> result, in_mermaid |-> in_mermaid]

\* the loop from line i on
RECURSIVE FenceLoop(_, _, _)
FenceLoop(lines, i, st) ==
  LET \* one turn of the loop, on line i of lines
      LoopTurn ==
        LET \* the look-ahead of the loop at a closing fence: next_non_empty starts with 'subgraph',
            \* where next_non_empty is the trimmed first line after line i that is not blank
            SubgraphFollows ==
              LET later == { j \in (i + 1)..Len(lines) : Strip(lines[j]) # <<>> }
              IN  /\ later # {}
                  /\ StartsWith(Strip(lines[CHOOSE j \in later : \A k \in later : j <= k]), SubgraphWord)
            EndWord == <<"e","n","d">>
            line == Strip(lines[i])
            result == st.result
        IN  IF line = MermaidOpen
              THEN LoopState(Append(result, lines[i]), TRUE)
            ELSE IF line = Fence /\ st.in_mermaid
              THEN IF SubgraphFollows
                     THEN st
                     ELSE LoopState(Append(result, lines[i]), FALSE)
            ELSE IF StartsWith(line, SubgraphWord) /\ ~st.in_mermaid
              THEN IF result # <<>> /\ Strip(result[Len(result)]) = Fence
                     THEN LoopState(Append(SubSeq(result, 1, Len(result) - 1), Indent \o lines[i]),
                                    TRUE)
                     ELSE LoopState(result \o <<MermaidOpen, Indent \o lines[i]>>, TRUE)
            ELSE IF st.in_mermaid
              THEN IF \/ StartsWith(line, SubgraphWord)
                      \/ line = EndWord
                      \/ StartsWith(line, Indent)
                     THEN LoopState(Append(result, lines[i]), TRUE)
                     ELSE LoopState(Append(result, Indent \o lines[i]), TRUE)
            ELSE LoopState(Append(result, lines[i]), FALSE)
  IN
  IF i > Len(lines) THEN st
  ELSE FenceLoop(lines, i + 1, LoopTurn)

\* the mutant of CloseOpenBlock: a block that is still open is left open
LeaveOpenBlock(st) == st.result

\* if in_mermaid: result.append('```')
CloseOpenBlock(st) ==
  IF st.in_mermaid THEN Append(st.result, Fence) ELSE st.result

\* clean_model_response(response)
clean_model_response(s) ==
  LET cleaned == FenceBareMermaid(
                   MergeSplitDiagrams(RemoveEmptyFences(DropIntroduction(CutAtSummary(s)))), 1)
      lines == Split(cleaned)
  IN  Join(Newline, CloseOpenBlock(FenceLoop(lines, 1, LoopState(<<>>, FALSE))))

CleanInit ==
  /\ cLines = <<>>
  /\ cOutput = <<>>
  /\ cPc = "input"

\* the response of the model grows by one line
ResponseLine(line) ==
  /\ program = "clean_response"
  /\ cPc = "input"
  /\ Len(cLines) < MaxLines
  /\ cLines' = Append(cLines, line)
  /\ UNCHANGED <<cOutput, cPc>>
  /\ UNCHANGED nonCleanVars

\* model_response = clean_model_response(model_response) of
\* generate_summary_with_bedrock
CleanModelResponse ==
  /\ program = "clean_response"
  /\ cPc = "input"
  /\ cOutput' = <<clean_model_response(Join(Newline, cLines))>>
  /\ cPc' = "returned"
  /\ UNCHANGED cLines
  /\ UNCHANGED nonCleanVars

CleanResponseNext ==
  LET \* the lines a model response is built from
      ResponseLines ==
        { MermaidOpen, Fence, SubgraphWord, <<>>, SummaryHeading, MermaidWord,
          <<"g","r","a","p","h">> }
  IN
  \/ \E line \in ResponseLines : ResponseLine(line)
  \/ CleanModelResponse

----------------------------------------------------------------------------

Init ==
  LET Programs == {"strategy", "multi_agent_chat", "langgraph_chat", "summaries", "kb_tool",
                   "pods_check", "folder_content", "eks_runner", "clean_response"}
  IN
  /\ program \in Programs
  /\ StrategyInit
  /\ ChatInit
  /\ SummaryInit
  /\ KbInit
  /\ PodsInit
  /\ FolderInit
  /\ RunnerInit
  /\ CleanInit

Next ==
  \/ StrategyNext
  \/ MultiAgentChatNext
  \/ LangGraphChatNext
  \/ SummariesNext
  \/ KbToolNext
  \/ PodsCheckNext
  \/ FolderContentNext
  \/ EksRunnerNext
  \/ CleanResponseNext

Spec == Init /\ [][Next]_vars

----------------------------------------------------------------------------
(* The claims *)

Range(f) == { f[i] : i \in DOMAIN f }

\* some keyword of the list occurs in the lower-cased query
Matches(keywords, query) ==
  \E kw \in Range(keywords) : IsSubstring(kw, Lower(query))

\* C1: _determine_agent_strategy returns 'coordinator' if and only if no keyword of
\* the three lists is a substring of the lower-cased query; otherwise the label names
\* exactly the matching categories, never 'coordinator'; the label is never empty.
C1_StrategyLabel ==
  (program = "strategy" /\ sPc = "returned") =>
    LET r == Matches(research_keywords, sQuery)
        a == Matches(analysis_keywords, sQuery)
        c == Matches(creative_keywords, sQuery)
        n == (IF r THEN 1 ELSE 0) + (IF a THEN 1 ELSE 0) + (IF c THEN 1 ELSE 0)
    IN  /\ (sLabel = CoordinatorName) <=> ~(r \/ a \/ c)
        /\ IsSubstring(ResearchName, sLabel) <=> r
        /\ IsSubstring(AnalysisName, sLabel) <=> a
        /\ IsSubstring(CreativeName, sLabel) <=> c
        /\ (r \/ a \/ c) => /\ ~IsSubstring(CoordinatorName, sLabel)
                            /\ Len(sLabel) = 8 * n + Len(JoinSeparator) * (n - 1)
        /\ sLabel # <<>>

\* a query in mixed case that matches all three lists has been labelled
C1_Witness ==
  /\ program = "strategy" /\ sPc = "returned"
  /\ Matches(research_keywords, sQuery)
  /\ Matches(analysis_keywords, sQuery)
  /\ Matches(creative_keywords, sQuery)
  /\ Lower(sQuery) # sQuery

\* the events convert_chunks_to_events gives for a sequence of chunks, in order
RECURSIVE ConvertedEvents(_, _)
ConvertedEvents(session_id, cs) ==
  IF cs = <<>> THEN <<>>
  ELSE convert_chunks_to_events(session_id, Head(cs)) \o ConvertedEvents(session_id, Tail(cs))

\* C5: create_stream yields exactly the events invoke_stream yields, in the same
\* order, none dropped, duplicated or altered; and invoke_stream yields the converted
\* events of the chunks in the order the chunks are emitted (followed only by the
\* ErrorEvent of an exception).
C5_StreamForwarding ==
  program = "multi_agent_chat" =>
    \A r \in RequestIds :
      /\ ctrlOut[r] = agentOut[r]
      /\ req[r] # <<>> =>
           LET all == agentOut[r] \o pending[r]
               conv == ConvertedEvents(StreamSession(req[r][1]), chunks[r])
           IN  \/ all = conv
               \/ /\ Len(all) = Len(conv) + 1
                  /\ SubSeq(all, 1, Len(conv)) = conv
                  /\ all[Len(all)].type = "error"
                  /\ pc[r] \in {"stream_last", "stream_done"}
      /\ pc[r] = "stream_done" => pending[r] = <<>>

\* a stream of two chunks and three events has been forwarded to its end
C5_Witness ==
  /\ program = "multi_agent_chat"
  /\ \E r \in RequestIds :
       /\ pc[r] = "stream_done"
       /\ Len(chunks[r]) >= 2
       /\ Len(ctrlOut[r]) >= 3
       /\ ctrlOut[r][Len(ctrlOut[r])].type = "completion"

\* the request of task r went through agent.invoke or invoke_stream with a text block
HandledWithText(r) ==
  /\ req[r] # <<>>
  /\ req[r][1].text # <<>>
  /\ pc[r] # "raised_stream_flag"

C7_OnlyCoordinator ==
  program = "multi_agent_chat" =>
    \A r \in RequestIds :
      /\ \A i \in 1..Len(extCalls[r]) : extCalls[r][i].target = agent.coordinator
      /\ HandledWithText(r) =>
           /\ Len(extCalls[r]) = 1
           /\ extCalls[r][1].query =
                StrategyPrefix \o determine_agent_strategy(req[r][1].text[1])
                  \o <<"]", " ">> \o req[r][1].text[1]
      /\ ~HandledWithText(r) => extCalls[r] = <<>>

\* a request whose label names the research and analysis agents has been answered
C7_Witness ==
  /\ program = "multi_agent_chat"
  /\ \E r \in RequestIds :
       /\ pc[r] = "returned"
       /\ IsSubstring(ResearchName, response[r][1].metadata.strategy_used)
       /\ IsSubstring(AnalysisName, response[r][1].metadata.strategy_used)

RECURSIVE Count(_, _)
Count(seq, x) ==
  IF seq = <<>> THEN 0 ELSE (IF Head(seq) = x THEN 1 ELSE 0) + Count(Tail(seq), x)

\* the external call made for task r has raised
CallRaised(r) == extResult[r] # <<>> /\ extResult[r][1].raised

\* C2 (as stated): every call to an external service or SDK is enclosed in a broad
\* exception handler, so that its failure never leaves the calling function as an
\* exception.
C2_NoFailurePropagates ==
  /\ \A r \in RequestIds : CallRaised(r) => pc[r] # "raised_external"
  /\ gPc \notin {"crashed_client", "crashed_converse"}

\* C2 (amended): the failure of bedrock.converse, of client.retrieve and of the
\* coordinator stream of invoke_stream is caught and turned into None/False, an error
\* string or a final ErrorEvent; the failure of the coordinator call of invoke, of
\* chat_service.run and of the construction of the Bedrock client is not caught and
\* leaves the function as an exception, with no response built.
C2_WhereFailuresAreCaught ==
  /\ \A r \in RequestIds :
       CallRaised(r) =>
         IF extCalls[r][1].method = "stream_async"
         THEN /\ pc[r] \in {"stream_last", "stream_done"}
              /\ LET all == agentOut[r] \o pending[r]
                 IN  /\ all # <<>>
                     /\ all[Len(all)] = ErrorEvent(StreamSession(req[r][1]), extResult[r][1].value)
         ELSE /\ extCalls[r][1].method \in {"__call__", "run"}
              /\ pc[r] = "raised_external"
              /\ response[r] = <<>>
  /\ \A r \in RequestIds : pc[r] = "raised_external" => CallRaised(r)
  /\ gPc # "crashed_converse"
  /\ \A i \in 1..Len(gLog) : gLog[i].outcome = "call_failed" => ~gLog[i].ret
  /\ (kbOutcome # <<>> /\ kbOutcome[1].raised) =>
       kbReturn = <<ErrorPrefix \o kbOutcome[1].value>>

\* a stream has ended with the ErrorEvent of a failed stream_async, after an event
C2_Witness ==
  /\ program = "multi_agent_chat"
  /\ \E r \in RequestIds :
       /\ CallRaised(r)
       /\ pc[r] = "stream_done"
       /\ Len(ctrlOut[r]) >= 2

C4_FailureEndsOnlyItsFolder ==
  program = "summaries" =>
    /\ \A i \in 1..Len(gLog) :
         /\ gLog[i].calls <= 1
         /\ gLog[i].folder = gFolders[i]
         /\ gLog[i].outcome = "call_failed" =>
              /\ ~gLog[i].ret
              /\ gIdx > i
              /\ gPc = "done" => Len(gLog) = Len(gFolders)
    /\ Count(gEvents, "converse") <= Len(gFolders)

\* the call for the first folder failed and the second folder was then summarised
C4_Witness ==
  /\ program = "summaries" /\ gPc = "done"
  /\ Len(gLog) = 2
  /\ gLog[1].outcome = "call_failed"
  /\ gLog[2].outcome = "written"

\* C9: when the output file of a folder exists, generate_summary_file returns True
\* without calling Bedrock and leaves the file as it is; hence over any number of runs
\* a summary file, once written, is never written again.
C9_ExistingSummaryKept ==
  program = "summaries" =>
    /\ \A i \in 1..Len(gLog) :
         gLog[i].existed =>
           /\ gLog[i].outcome = "skipped"
           /\ gLog[i].ret
           /\ gLog[i].calls = 0
    /\ \A f \in OutputFiles :
         /\ gWrites[f] <= 1
         /\ gFiles[f] # <<>> <=> gWrites[f] = 1

\* in a second run a folder was skipped whose summary the first run wrote
C9_Witness ==
  /\ program = "summaries" /\ gRun = 2
  /\ \E i \in 1..Len(gLog) :
       /\ gLog[i].outcome = "skipped"
       /\ gFiles[OutputFile(gLog[i].folder)][1][1] = 1

\* C10: without KNOWLEDGE_BASE_ID every search returns the mock response that embeds
\* the query and client.retrieve is never called; with it, a search never raises: it
\* returns the non-empty result texts joined in retrieval order, the 'No relevant
\* information found' message, or an 'Error accessing knowledge base' string.
C10_SearchKnowledgeBase ==
  program = "kb_tool" =>
    IF knowledge_base_id = None \/ knowledge_base_id = ""
    THEN /\ kbRetrieveCalls = 0
         /\ kbReturn # <<>> => kbReturn[1] = MockPrefix \o kbQuery[1] \o MockSuffix
    ELSE /\ kbRetrieveCalls = kbSearches
         /\ kbReturn # <<>> =>
              LET o == kbOutcome[1]
                  texts == [i \in 1..Len(o.value) |->
                              IF o.value[i].has_content /\ o.value[i].has_text
                              THEN o.value[i].text ELSE <<>>]
                  kept == SelectSeq(texts, LAMBDA t : Len(t) > 0)
                  bad == \E i \in 1..Len(o.value) : Len(texts[i]) > 0 /\ ~o.value[i].is_str
              IN  IF o.raised \/ bad
                  THEN SubSeq(kbReturn[1], 1, Len(ErrorPrefix)) = ErrorPrefix
                  ELSE IF kept = <<>> THEN kbReturn[1] = NoRelevantText
                  ELSE kbReturn[1] = Join(ResultSeparator, kept)

\* a search has returned two texts joined in retrieval order
C10_Witness ==
  /\ program = "kb_tool"
  /\ kbReturn # <<>> /\ kbOutcome # <<>> /\ ~kbOutcome[1].raised
  /\ Len(kbOutcome[1].value) = 2
  /\ kbOutcome[1].value[1].text # kbOutcome[1].value[2].text
  /\ kbReturn[1] = kbOutcome[1].value[1].text \o ResultSeparator \o kbOutcome[1].value[2].text

\* C11: the controller's invoke raises ValueError for every request whose stream flag
\* is set, without calling the agent; a request whose stream flag is not set is passed
\* to agent.invoke exactly once and what agent.invoke returns is returned unchanged.
C11_ControllerInvoke ==
  program = "multi_agent_chat" =>
    \A r \in RequestIds :
      (req[r] # <<>> /\ pc[r] \in {"invoke_called", "returned", "raised_stream_flag",
                                   "raised_no_text", "raised_external"}) =>
        IF req[r][1].stream
        THEN /\ pc[r] = "raised_stream_flag"
             /\ agentCalls[r] = <<>>
             /\ extCalls[r] = <<>>
             /\ response[r] = <<>>
        ELSE /\ pc[r] # "raised_stream_flag"
             /\ agentCalls[r] = <<[method |-> "invoke", request |-> req[r][1]]>>
             /\ pc[r] = "returned" =>
                  response[r] = <<InvokeResponse(req[r][1], extResult[r][1].value)>>

\* one task was refused for its stream flag while the other got its response
C11_Witness ==
  /\ program = "multi_agent_chat"
  /\ \E r, q \in RequestIds :
       /\ pc[r] = "raised_stream_flag" /\ req[r][1].stream
       /\ pc[q] = "returned" /\ ~req[q][1].stream /\ response[q] # <<>>

\* C12: a 'pods running' check passes only if at least one pod of the service exists
\* and every pod is in phase Running with every one of its containers ready; a pod in
\* phase Running with a container that is not ready makes the check fail.
C12_PodsRunningCheck ==
  (program = "pods_check" /\ pVerdict = <<TRUE>>) =>
    /\ Len(pPods) > 0
    /\ \A i \in 1..Len(pPods) :
         /\ pPods[i].phase = "Running"
         /\ pPods[i].containerStatuses # <<>> =>
              \A j \in 1..Len(pPods[i].containerStatuses[1]) :
                pPods[i].containerStatuses[1][j].ready

\* C13: in get_folder_content_summary the running estimate tokens_used never exceeds
\* the budget max_tokens, for any files and any file sizes.
C13_WithinBudget ==
  program = "folder_content" => fTokens <= max_tokens

\* C14: filter_files filters out excluded files: no file whose path or base name matches
\* an exclude pattern is in important_files or in filtered_files, so none is listed or
\* has its content added to the folder summary.
C14_ExcludedFilesLeftOut ==
  (program = "folder_content" /\ fPc \notin {"start", "none"}) =>
    /\ \A i \in 1..Len(fImportant) :
         \A k \in 1..Len(fConfig.exclude_patterns) :
           /\ ~fnmatch(fImportant[i].path, fConfig.exclude_patterns[k])
           /\ ~fnmatch(Basename(fImportant[i].path), fConfig.exclude_patterns[k])
    /\ \A i \in 1..Len(fFiltered) :
         \A k \in 1..Len(fConfig.exclude_patterns) :
           /\ ~fnmatch(fFiltered[i].path, fConfig.exclude_patterns[k])
           /\ ~fnmatch(Basename(fFiltered[i].path), fConfig.exclude_patterns[k])
    /\ \A p \in 1..Len(fParts) :
         fParts[p].kind \in {"header", "content", "cell"} =>
           \A k \in 1..Len(fConfig.exclude_patterns) :
             /\ ~fnmatch(fParts[p].path, fConfig.exclude_patterns[k])
             /\ ~fnmatch(Basename(fParts[p].path), fConfig.exclude_patterns[k])

\* C19: every markdown file the markdown-content loop passes over as 'already included'
\* has its content in the README section of the summary: the only file passed over is
\* the folder's own top-level README.md.
C19_OnlyOwnReadmeSkipped ==
  program = "folder_content" =>
    \A p \in 1..Len(fParts) :
      fParts[p].kind = "skipped" => fParts[p].path = Path_readme

\* the basic tests have all been run
BasicTestsOver == kPc \in {"forward", "endpoint", "stop", "summary"} \/
                  (kExit # <<>> /\ kExit[1].cause = "return")

\* C15 (as stated): the four basic tests are run once each whatever their results; the
\* port-forward is started and the endpoint tests are run only if every basic test
\* returned True; if a basic test failed or raised, no port-forward process is started
\* and no HTTP request is sent.
C15_NothingSentUnlessBasicPass ==
  program = "eks_runner" =>
    /\ BasicTestsOver =>
         [i \in 1..Len(kBasic) |-> kBasic[i].test_name] = BasicTests(kRunner)
    /\ (kPopen > 0 \/ kEndpoint # <<>>) =>
         /\ Len(kBasic) = 4
         /\ \A i \in 1..4 : kBasic[i].result
    /\ (\E i \in 1..Len(kBasic) : ~kBasic[i].result) =>
         /\ kPopen = 0
         /\ kHttp = <<>>

\* C15 (amended): as stated, except that the HTTP requests that are not sent after a
\* failed basic test are those to the service's endpoints: the token request of
\* get_m2m_token is sent before the basic tests, whatever their results.
C15_EndpointsOnlyAfterBasicPass ==
  program = "eks_runner" =>
    /\ BasicTestsOver =>
         [i \in 1..Len(kBasic) |-> kBasic[i].test_name] = BasicTests(kRunner)
    /\ (kPopen > 0 \/ kEndpoint # <<>>) =>
         /\ Len(kBasic) = 4
         /\ \A i \in 1..4 : kBasic[i].result
    /\ (\E i \in 1..Len(kBasic) : ~kBasic[i].result) =>
         /\ kPopen = 0
         /\ kProc = None
         /\ kEndpoint = <<>>
         /\ \A h \in 1..Len(kHttp) : kHttp[h] = "token_url"
    /\ \A h \in 1..Len(kHttp) :
         kHttp[h] # "token_url" => (kPopen = 1 /\ \A i \in 1..Len(kBasic) : kBasic[i].result)

\* a run has ended whose first basic test failed and whose last passed, with the token
\* request sent and no port-forward
C15_Witness ==
  /\ program = "eks_runner"
  /\ kExit # <<>> /\ kExit[1].cause = "return"
  /\ Len(kBasic) = 4 /\ ~kBasic[1].result /\ kBasic[4].result
  /\ kHttp = <<"token_url">>
  /\ kPopen = 0

\* C16: a port-forward process that start_port_forward started is terminated and waited
\* for before the runner exits, on the normal path and in main's handlers: when the
\* runner exits port_forward_process is None or refers to a process that has exited,
\* and the process is terminated only once.
C16_PortForwardStopped ==
  (program = "eks_runner" /\ kExit # <<>>) =>
    /\ kProcState # "running"
    /\ kProc = None \/ kProcState = "exited"
    /\ kSignals <= 1

\* the positions of the converse calls in the events of the run
ConverseAt == { i \in 1..Len(gEvents) : gEvents[i] = "converse" }

\* C17: a delay separates API calls: between any two consecutive Bedrock converse calls
\* of one run main sleeps at least once, whatever the outcome of the first call.
C17_SleepBetweenCalls ==
  program = "summaries" =>
    \A i, j \in ConverseAt :
      i < j => \E k \in (i + 1)..(j - 1) : gEvents[k] = "sleep"

\* C18: the number main reports as 'summaries generated' equals the number of folders
\* for which a summary was generated and written in this run, and never exceeds the
\* number of Bedrock calls that succeeded in this run.
C18_SuccessCount ==
  (program = "summaries" /\ gPc = "done") =>
    /\ gSuccess = Cardinality({ i \in 1..Len(gLog) : gLog[i].outcome = "written" })
    /\ gSuccess <= Cardinality({ i \in 1..Len(gLog) :
                                   gLog[i].calls = 1 /\ gLog[i].outcome # "call_failed" })

\* the lines of the text clean_model_response returned
OutputLines == Split(cOutput[1])

\* C20: the output of clean_model_response never ends inside an open mermaid block:
\* after the last output line whose trimmed text is the opening mermaid fence there is
\* a later output line whose trimmed text is the closing fence
C20_MermaidBlockClosed ==
  cOutput # <<>> =>
    \A i \in 1..Len(OutputLines) :
      Strip(OutputLines[i]) = MermaidOpen =>
        \E j \in (i + 1)..Len(OutputLines) : Strip(OutputLines[j]) = Fence

\* C20 witness: a response whose last mermaid block has no closing fence of its own was
\* cleaned, and the output holds an opening mermaid fence
C20_Witness ==
  /\ cOutput # <<>>
  /\ \E i \in 1..Len(cLines) :
       /\ Strip(cLines[i]) = MermaidOpen
       /\ \A j \in (i + 1)..Len(cLines) : Strip(cLines[j]) # Fence
  /\ \E i \in 1..Len(OutputLines) : Strip(OutputLines[i]) = MermaidOpen

====
